---------------------------- MODULE Spec2Model ----------------------------
(***************************************************************************)
(* Session orchestration core of the ECDD repository:                      *)
(*   - the two agents' remote-run protocol (_process_run and its callers   *)
(*     in questionnaire_agent.py / reporter_agent.py),                     *)
(*   - the coordinator's session store and its operations (agents.py).     *)
(*                                                                         *)
(* Durations are integers in units of 1/128 second: every value the poll   *)
(* loop computes (0.5 * 1.5^k below the 5.0 cap, and their sums) is a      *)
(* multiple of 1/128, so the integer arithmetic is exact.                  *)
(***************************************************************************)
EXTENDS Integers, Sequences, FiniteSets, TLC

(***************************************************************************)
(* Bounds of the model                                                     *)
(***************************************************************************)
MaxSessions == 3      \* session ids the coordinator may allocate
MaxPending == 2       \* coroutines suspended at an await at the same time
MaxOps == 4           \* coordinator calls (begun or completed) in one run
ClosedFormMaxK == 12  \* largest k for which the closed form 1.5^(k-1) is evaluated

(***************************************************************************)
(* Python values                                                           *)
(***************************************************************************)
\* Python's None, for Optional[...] fields and results
None == [k |-> "none"]

\* a str holding a response text: a sequence of segments (see Seg* below)
Str(segs) == [k |-> "text", segs |-> segs]

\* Python truthiness of an Optional[str]: None and "" are falsy
Truthy(v) == v.k = "text" /\ Len(v.segs) > 0

(***************************************************************************)
(* JSON values, as json.loads produces them                                *)
(***************************************************************************)
JObj(f) == [jt |-> "obj", v |-> f]
JList(s) == [jt |-> "list", v |-> s]
JStr(s) == [jt |-> "str", v |-> s]
JBool(b) == [jt |-> "bool", v |-> b]
JNull == [jt |-> "null"]

\* dict.get(key, default)
Get(d, key, default) == IF key \in DOMAIN d.v THEN d.v[key] ELSE default

(***************************************************************************)
(* Response texts.  A text is a sequence of segments:                      *)
(*   SegFence(tag)  the three backticks followed by tag ("json",           *)
(*                  "documents" or "" for a bare fence)                    *)
(*   SegProse       narrative text (not JSON, not whitespace)              *)
(*   SegJson(v)     the serialisation of the JSON value v                  *)
(***************************************************************************)
SegFence(tag) == [t |-> "fence", tag |-> tag]
SegProse == [t |-> "prose"]
SegJson(v) == [t |-> "json", v |-> v]

IsFence(seg) == seg.t = "fence"
IsFenceTag(seg, tag) == seg.t = "fence" /\ seg.tag = tag

\* `"```json" in response`, `"```documents" in response`
ContainsFenceTag(segs, tag) == \E i \in 1..Len(segs) : IsFenceTag(segs[i], tag)

\* `"```" in response`: every fence contains the three backticks
ContainsFence(segs) == \E i \in 1..Len(segs) : IsFence(segs[i])

\* index of the first segment at or after position from that satisfies the
\* fence test (tag = "*" stands for the bare three backticks, which match
\* every fence); Len(segs) + 1 when there is none
RECURSIVE FirstFence(_, _, _)
FirstFence(segs, tag, from) ==
    IF from > Len(segs) THEN Len(segs) + 1
    ELSE IF (IF tag = "*" THEN IsFence(segs[from]) ELSE IsFenceTag(segs[from], tag))
         THEN from
         ELSE FirstFence(segs, tag, from + 1)

\* what the separator "```" leaves behind of a fence: its tag stays in the
\* following part as plain characters
TagResidue(seg) == IF seg.tag = "" THEN <<>> ELSE <<SegProse>>

\* response.split(sep)[0]
SplitHead(segs, tag) == SubSeq(segs, 1, FirstFence(segs, tag, 1) - 1)

\* response.split(sep)[1] + sep + response.split(sep)[2] + ... : everything
\* after the first occurrence of the separator (requires one to exist)
AfterFirst(segs, tag) ==
    LET i == FirstFence(segs, tag, 1)
    IN  (IF tag = "*" THEN TagResidue(segs[i]) ELSE <<>>) \o SubSeq(segs, i + 1, Len(segs))

\* response.split("```json")[1].split("```")[0] and
\* response.split("```")[1].split("```")[0]
\* (split(sep)[1] is the part between the first and the second separator;
\*  cutting it at the next "```" is what the code does next in both cases,
\*  and a "```json" separator is itself a "```" occurrence)
FencedBlock(segs, tag) == SplitHead(AfterFirst(segs, tag), "*")

\* json.loads(text.strip()): succeeds exactly when the text is the
\* serialisation of one JSON value
JsonLoads(segs) ==
    IF Len(segs) = 1 /\ segs[1].t = "json"
    THEN [exc |-> "none", data |-> segs[1].v]
    ELSE [exc |-> "JSONDecodeError", data |-> JNull]

(***************************************************************************)
(* Client profiles (schemas.py ClientProfile): the screening facts the     *)
(* agents read.  pep_status is the list of is_pep flags.                   *)
(***************************************************************************)
ClientProfile(cid, pep, sanctions, adverse) ==
    [customer_id |-> cid, pep_status |-> pep, sanctions |-> sanctions, adverse_news |-> adverse]

Profiles ==
    << ClientProfile("c1", <<>>, 0, 0),
       ClientProfile("c2", <<TRUE>>, 0, 1),
       ClientProfile("c1", <<FALSE>>, 1, 0) >>

(***************************************************************************)
(* Agent 1: questionnaires (questionnaire_agent.py)                        *)
(***************************************************************************)
QuestionType ==
    {"text", "textarea", "dropdown", "multiple_choice", "checkbox", "date",
     "number", "currency", "yes_no"}

QuestionField(field_id, question_type, required, category) ==
    [field_id |-> field_id, question_type |-> question_type,
     required |-> required, category |-> category]

QuestionSection(section_id, section_title, order, questions) ==
    [section_id |-> section_id, section_title |-> section_title,
     order |-> order, questions |-> questions]

\* questionnaire_id is a sequence of tokens: "followup-" prefixes, then "uuid"
DynamicQuestionnaire(qid, cid, sections, client_type, profile_summary) ==
    [k |-> "questionnaire", questionnaire_id |-> qid, customer_id |-> cid,
     sections |-> sections, client_type |-> client_type,
     profile_summary |-> profile_summary]

FallbackSections(prefix) ==
    << QuestionSection(prefix \o <<"identity">>, "Identity Verification", 1,
          << QuestionField(prefix \o <<"id_verified">>, "yes_no", TRUE, "identity") >>),
       QuestionSection(prefix \o <<"sow">>, "Source of Wealth", 2,
          << QuestionField(prefix \o <<"primary_sow">>, "dropdown", TRUE, "sow"),
             QuestionField(prefix \o <<"sow_documentation">>, "textarea", TRUE, "sow") >>),
       QuestionSection(prefix \o <<"sof">>, "Source of Funds", 3,
          << QuestionField(prefix \o <<"expected_activity">>, "dropdown", TRUE, "sof") >>) >>

generate_fallback_questionnaire(profile, is_followup) ==
    LET prefix == IF is_followup THEN <<"followup-">> ELSE <<>>
    IN  DynamicQuestionnaire(prefix \o <<"uuid">>, profile.customer_id,
                             FallbackSections(prefix), "Unknown", "fallback")


\* the result of a Python call: exc = "none" and the returned value, or the
\* class of the exception it raised
Ok(v) == [exc |-> "none", v |-> v]
Raise(exc) == [exc |-> exc, v |-> None]

\* `for x in value` over a decoded JSON value
IterItems(value) ==
    CASE value.jt = "list" -> Ok(value.v)
      [] value.jt = "obj" -> IF DOMAIN value.v = {} THEN Ok(<<>>) ELSE Ok(<<JStr("key")>>)
      [] value.jt = "str" -> IF value.v = "" THEN Ok(<<>>) ELSE Ok(<<JStr("char")>>)
      [] OTHER -> Raise("TypeError")

\* QuestionField(field_id=q.get(...), question_type=QuestionType(q.get(...)), ...)
ParseQuestion(q) ==
    IF q.jt # "obj" THEN Raise("AttributeError")
    ELSE LET fid == Get(q, "field_id", JStr("uuid8"))
             qt == Get(q, "question_type", JStr("text"))
             req == Get(q, "required", JBool(TRUE))
             cat == Get(q, "category", JStr(""))
         IN  IF qt.jt # "str" \/ qt.v \notin QuestionType THEN Raise("ValueError")
             ELSE IF fid.jt # "str" \/ req.jt # "bool" \/ cat.jt # "str"
                  THEN Raise("ValidationError")
                  ELSE Ok(QuestionField(<<fid.v>>, qt.v, req.v, cat.v))

RECURSIVE ParseQuestions(_)
ParseQuestions(items) ==
    IF items = <<>> THEN Ok(<<>>)
    ELSE LET h == ParseQuestion(Head(items))
         IN  IF h.exc # "none" THEN Raise(h.exc)
             ELSE LET t == ParseQuestions(Tail(items))
                  IN  IF t.exc # "none" THEN t ELSE Ok(<<h.v>> \o t.v)

\* one iteration of `for s in data.get("sections", [])`
ParseSection(s) ==
    IF s.jt # "obj" THEN Raise("AttributeError")
    ELSE LET it == IterItems(Get(s, "questions", JList(<<>>)))
         IN  IF it.exc # "none" THEN Raise(it.exc)
             ELSE LET qs == ParseQuestions(it.v)
                      sid == Get(s, "section_id", JStr("uuid8"))
                      title == Get(s, "section_title", JStr("Questions"))
                  IN  IF qs.exc # "none" THEN Raise(qs.exc)
                      ELSE IF sid.jt # "str" \/ title.jt # "str" THEN Raise("ValidationError")
                      ELSE Ok(QuestionSection(<<sid.v>>, title.v, 0, qs.v))

RECURSIVE ParseSections(_)
ParseSections(items) ==
    IF items = <<>> THEN Ok(<<>>)
    ELSE LET h == ParseSection(Head(items))
         IN  IF h.exc # "none" THEN Raise(h.exc)
             ELSE LET t == ParseSections(Tail(items))
                  IN  IF t.exc # "none" THEN t ELSE Ok(<<h.v>> \o t.v)

\* the text handed to json.loads: the first fenced block when the response
\* has a fence, the whole response otherwise
QuestionnaireJsonText(segs) ==
    IF ContainsFenceTag(segs, "json") THEN FencedBlock(segs, "json")
    ELSE IF ContainsFence(segs) THEN FencedBlock(segs, "*")
    ELSE segs

parse_questionnaire_response(response, customer_id) ==
    LET loaded == JsonLoads(QuestionnaireJsonText(response.segs))
        data == loaded.data
    IN  IF loaded.exc = "JSONDecodeError"
        THEN \* except json.JSONDecodeError: fallback for a bare profile
             Ok(generate_fallback_questionnaire(ClientProfile(customer_id, <<>>, 0, 0), FALSE))
        ELSE IF data.jt # "obj" THEN Raise("AttributeError")
        ELSE LET it == IterItems(Get(data, "sections", JList(<<>>)))
                 ct == Get(data, "client_type", JStr(""))
             IN  IF it.exc # "none" THEN Raise(it.exc)
                 ELSE LET secs == ParseSections(it.v)
                      IN  IF secs.exc # "none" THEN Raise(secs.exc)
                          ELSE IF ct.jt # "str" THEN Raise("ValidationError")
                          ELSE Ok(DynamicQuestionnaire(<<"uuid">>, customer_id, secs.v,
                                                       ct.v, "parsed"))

(***************************************************************************)
(* Agent 2: assessments and checklists (reporter_agent.py)                 *)
(***************************************************************************)
JNum(n) == [jt |-> "num", v |-> n]

RiskLevel == {"low", "medium", "high", "critical"}
DocumentPriority == {"required", "recommended", "optional"}

FlagNames ==
    {"pep", "sanctions", "adverse_media", "high_risk_jurisdiction", "watchlist_hit",
     "source_of_wealth_concerns", "source_of_funds_concerns", "complex_ownership"}

\* ComplianceFlags(): every flag defaults to False
ComplianceFlags(true_flags) == [f \in FlagNames |-> f \in true_flags]

RiskFactor(factor_name, level, score) ==
    [factor_name |-> factor_name, level |-> level, score |-> score]

\* ECDDAssessment; scores are in hundredths
ECDDAssessment(client_type, rating, score, factors, flags, report_text) ==
    [k |-> "assessment", client_type |-> client_type, overall_risk_rating |-> rating,
     risk_score |-> score, risk_factors |-> factors, compliance_flags |-> flags,
     report_text |-> report_text]

DocumentItem(document_name, priority, category) ==
    [document_name |-> document_name, priority |-> priority, category |-> category]

DocumentChecklist(identity, sow, sof, compliance, additional, checklist_text) ==
    [k |-> "checklist", identity_documents |-> identity,
     source_of_wealth_documents |-> sow, source_of_funds_documents |-> sof,
     compliance_documents |-> compliance, additional_documents |-> additional,
     checklist_text |-> checklist_text]

\* client_profile.pep_status and any(p.is_pep for p in client_profile.pep_status)
HasPep(client_profile) ==
    \E i \in 1..Len(client_profile.pep_status) : client_profile.pep_status[i]

\* a fallback that ignores adverse news when it rates the client
FallbackRiskLevelNoAdverse(pep, sanc, adv) ==
    IF sanc THEN "critical" ELSE IF pep THEN "high" ELSE "medium"

\* risk_level after the three `if` statements on pep_status, sanctions and
\* adverse_news
FallbackRiskLevel(pep, sanc, adv) ==
    LET level1 == IF pep THEN "high" ELSE "medium"
        level2 == IF sanc THEN "critical" ELSE level1
    IN  IF adv /\ level2 = "medium" THEN "high" ELSE level2

\* a factor list that rates a sanctions hit as high
FallbackRiskFactorsSanctionsHigh(pep, sanc, adv) ==
    (IF pep THEN <<RiskFactor("PEP Status", "high", 80)>> ELSE <<>>)
    \o (IF sanc THEN <<RiskFactor("Sanctions Screening", "high", 95)>> ELSE <<>>)
    \o (IF adv THEN <<RiskFactor("Adverse Media", "high", 70)>> ELSE <<>>)

\* risk_factors after the three `if` statements
FallbackRiskFactors(pep, sanc, adv) ==
    (IF pep THEN <<RiskFactor("PEP Status", "high", 80)>> ELSE <<>>)
    \o (IF sanc THEN <<RiskFactor("Sanctions Screening", "critical", 95)>> ELSE <<>>)
    \o (IF adv THEN <<RiskFactor("Adverse Media", "high", 70)>> ELSE <<>>)

\* a checklist that asks for the photo ID only
FallbackChecklistPhotoIdOnly ==
    DocumentChecklist(
        << DocumentItem("Government-issued photo ID", "required", "identity") >>,
        << DocumentItem("Evidence of source of wealth", "required", "sow") >>,
        << DocumentItem("Bank statements (3 months)", "required", "sof") >>,
        <<>>, <<>>, "standard")

FallbackChecklist ==
    DocumentChecklist(
        << DocumentItem("Government-issued photo ID", "required", "identity"),
           DocumentItem("Proof of address", "required", "identity") >>,
        << DocumentItem("Evidence of source of wealth", "required", "sow") >>,
        << DocumentItem("Bank statements (3 months)", "required", "sof") >>,
        <<>>, <<>>, "standard")

generate_fallback_assessment(client_profile) ==
    LET pep == HasPep(client_profile)
        sanc == client_profile.sanctions > 0
        adv == client_profile.adverse_news > 0
        flags == ComplianceFlags((IF pep THEN {"pep"} ELSE {})
                                 \cup (IF sanc THEN {"sanctions"} ELSE {})
                                 \cup (IF adv THEN {"adverse_media"} ELSE {}))
    IN  << ECDDAssessment("Unknown (Fallback Assessment)",
                          FallbackRiskLevel(pep, sanc, adv), 50,
                          FallbackRiskFactors(pep, sanc, adv), flags, "fallback"),
           FallbackChecklist >>

\* a partial result: the object as far as it was built, and the exception
\* that stopped the building ("none" if none)
Built(exc, v) == [exc |-> exc, v |-> v]

\* for rf in data.get("risk_factors", []): assessment.risk_factors.append(...)
RECURSIVE AppendRiskFactors(_, _)
AppendRiskFactors(factors, items) ==
    IF items = <<>> THEN Built("none", factors)
    ELSE LET rf == Head(items)
         IN  IF rf.jt # "obj" THEN Built("AttributeError", factors)
             ELSE LET name == Get(rf, "factor_name", JStr(""))
                      level == Get(rf, "level", JStr("medium"))
                      score == Get(rf, "score", JNum(50))
                  IN  IF level.jt # "str" \/ level.v \notin RiskLevel
                      THEN Built("ValueError", factors)
                      ELSE IF score.jt # "num" THEN Built("ValueError", factors)
                      ELSE IF name.jt # "str" THEN Built("ValidationError", factors)
                      ELSE AppendRiskFactors(
                              Append(factors, RiskFactor(name.v, level.v, score.v)),
                              Tail(items))

\* ComplianceFlags(pep=flags_data.get("pep", False), ...)
ParseFlags(flags_data) ==
    IF flags_data.jt # "obj" THEN Built("AttributeError", ComplianceFlags({}))
    ELSE IF \E f \in FlagNames : Get(flags_data, f, JBool(FALSE)).jt # "bool"
    THEN Built("ValidationError", ComplianceFlags({}))
    ELSE Built("none", [f \in FlagNames |-> Get(flags_data, f, JBool(FALSE)).v])

\* `"overall_risk_rating" in data or "compliance_flags" in data`
LooksLikeAssessment(data) ==
    CASE data.jt = "obj" ->
            Built("none", "overall_risk_rating" \in DOMAIN data.v
                          \/ "compliance_flags" \in DOMAIN data.v)
      [] data.jt \in {"list", "str"} -> Built("none", FALSE)
      [] OTHER -> Built("TypeError", FALSE)

\* the assignments made for one assessment-shaped block, in the order of the
\* code; an exception leaves the earlier assignments in place
ApplyAssessmentData(a, data) ==
    LET ct == Get(data, "client_type", JStr(""))
        a1 == [a EXCEPT !.client_type = IF ct.jt = "str" THEN ct.v ELSE "non-string"]
        rr == Get(data, "overall_risk_rating", JStr("medium"))
    IN  IF rr.jt # "str" \/ rr.v \notin RiskLevel THEN Built("ValueError", a1)
        ELSE
        LET a2 == [a1 EXCEPT !.overall_risk_rating = rr.v]
            rs == Get(data, "risk_score", JNum(50))
        IN  IF rs.jt # "num" THEN Built("ValueError", a2)
            ELSE
            LET a3 == [a2 EXCEPT !.risk_score = rs.v]
                it == IterItems(Get(data, "risk_factors", JList(<<>>)))
            IN  IF it.exc # "none" THEN Built(it.exc, a3)
                ELSE
                LET fs == AppendRiskFactors(a3.risk_factors, it.v)
                    a4 == [a3 EXCEPT !.risk_factors = fs.v]
                IN  IF fs.exc # "none" THEN Built(fs.exc, a4)
                    ELSE
                    LET fl == ParseFlags(Get(data, "compliance_flags", JObj(<<>>)))
                    IN  IF fl.exc # "none" THEN Built(fl.exc, a4)
                        ELSE Built("none", [a4 EXCEPT !.compliance_flags = fl.v])

\* response.split("```json")[1:], each cut at its first "```"
RECURSIVE JsonBlocks(_)
JsonBlocks(segs) ==
    IF ~ContainsFenceTag(segs, "json") THEN <<>>
    ELSE LET rest == AfterFirst(segs, "json")
         IN  <<SplitHead(rest, "*")>> \o JsonBlocks(rest)

\* for block in json_blocks[1:]: ...
RECURSIVE ApplyJsonBlocks(_, _)
ApplyJsonBlocks(a, blocks) ==
    IF blocks = <<>> THEN Built("none", a)
    ELSE LET loaded == JsonLoads(Head(blocks))
         IN  IF loaded.exc # "none" THEN ApplyJsonBlocks(a, Tail(blocks))
             ELSE LET shape == LooksLikeAssessment(loaded.data)
                  IN  IF shape.exc # "none" THEN Built(shape.exc, a)
                      ELSE IF ~shape.v THEN ApplyJsonBlocks(a, Tail(blocks))
                      ELSE LET applied == ApplyAssessmentData(a, loaded.data)
                           IN  IF applied.exc # "none" THEN applied
                               ELSE ApplyJsonBlocks(applied.v, Tail(blocks))

\* parse_docs: items that fail to build are skipped
RECURSIVE ParseDocItems(_)
ParseDocItems(items) ==
    IF items = <<>> THEN <<>>
    ELSE LET d == Head(items)
             good == /\ d.jt = "obj"
                     /\ Get(d, "document_name", JStr("")).jt = "str"
                     /\ Get(d, "category", JStr("")).jt = "str"
                     /\ Get(d, "priority", JStr("required")).jt = "str"
                     /\ Get(d, "priority", JStr("required")).v \in DocumentPriority
         IN  (IF good
              THEN <<DocumentItem(Get(d, "document_name", JStr("")).v,
                                  Get(d, "priority", JStr("required")).v,
                                  Get(d, "category", JStr("")).v)>>
              ELSE <<>>) \o ParseDocItems(Tail(items))

ParseDocs(data, key) ==
    LET it == IterItems(Get(data, key, JList(<<>>)))
    IN  IF it.exc # "none" THEN Built(it.exc, <<>>) ELSE Built("none", ParseDocItems(it.v))

parse_document_checklist(data) ==
    IF data.jt # "obj" THEN Built("AttributeError", None)
    ELSE LET id == ParseDocs(data, "identity_documents")
             sow == ParseDocs(data, "source_of_wealth_documents")
             sof == ParseDocs(data, "source_of_funds_documents")
             com == ParseDocs(data, "compliance_documents")
             add == ParseDocs(data, "additional_documents")
             all == <<id, sow, sof, com, add>>
         IN  IF \E i \in 1..5 : all[i].exc # "none"
             THEN Built("TypeError", None)
             ELSE Built("none", DocumentChecklist(id.v, sow.v, sof.v, com.v, add.v, ""))

\* the checklist after the "```documents" step of the try block
ExtractChecklist(checklist, segs) ==
    IF ~ContainsFenceTag(segs, "documents") THEN checklist
    ELSE LET loaded == JsonLoads(FencedBlock(segs, "documents"))
         IN  IF loaded.exc # "none" THEN checklist
             ELSE LET parsed == parse_document_checklist(loaded.data)
                  IN  IF parsed.exc # "none" THEN checklist
                      ELSE [parsed.v EXCEPT !.checklist_text = "response"]

\* a parser that leaves the flags as the service returned them
BackfillFlagsNever(flags, client_profile) == flags

\* "Infer compliance flags from profile if not set"
BackfillFlags(flags, client_profile) ==
    IF flags["pep"] \/ flags["sanctions"] THEN flags
    ELSE [flags EXCEPT
            !["pep"] = IF HasPep(client_profile) THEN TRUE ELSE @,
            !["sanctions"] = IF client_profile.sanctions > 0 THEN TRUE ELSE @,
            !["adverse_media"] = IF client_profile.adverse_news > 0 THEN TRUE ELSE @]

parse_assessment_response(response, client_profile) ==
    LET a0 == ECDDAssessment("", "medium", 0, <<>>, ComplianceFlags({}), "response")
        c0 == DocumentChecklist(<<>>, <<>>, <<>>, <<>>, <<>>, "response")
        applied == ApplyJsonBlocks(a0, JsonBlocks(response.segs))
        \* an exception in the assessment step skips the checklist step
        checklist == IF applied.exc # "none" THEN c0
                     ELSE ExtractChecklist(c0, response.segs)
        a == applied.v
    IN  << [a EXCEPT !.compliance_flags = BackfillFlags(a.compliance_flags, client_profile)],
           checklist >>

\* an agent whose fallback is missing: the errors of the try block escape
generate_assessment_unguarded(client_profile, run) ==
    IF run.k = "raise" \/ ~Truthy(run.v) THEN Raise("Exception")
    ELSE Ok(parse_assessment_response(run.v, client_profile))

generate_assessment(client_profile, run) ==
    IF run.k = "raise" THEN Ok(generate_fallback_assessment(client_profile))
    ELSE IF ~Truthy(run.v) THEN Ok(generate_fallback_assessment(client_profile))
    ELSE Ok(parse_assessment_response(run.v, client_profile))

(***************************************************************************)
(* Response texts of the report-generation service used as inputs          *)
(***************************************************************************)
JFlags(true_flags) == JObj([f \in FlagNames |-> JBool(f \in true_flags)])

JAssessment(rating, true_flags) ==
    JObj([client_type |-> JStr("Corporate"), overall_risk_rating |-> JStr(rating),
          risk_score |-> JNum(70), compliance_flags |-> JFlags(true_flags),
          risk_factors |-> JList(<<JObj([factor_name |-> JStr("Jurisdiction"),
                                         level |-> JStr(rating)])>>)])

JChecklist ==
    JObj([identity_documents |-> JList(<<JObj([document_name |-> JStr("Passport"),
                                               priority |-> JStr("required")])>>),
          compliance_documents |-> JList(<<JObj([document_name |-> JStr("PEP declaration"),
                                                 priority |-> JStr("urgent")])>>)])

AssessmentTexts ==
    << Str(<<SegProse, SegFence("json"), SegJson(JAssessment("high", {"sanctions"})),
             SegFence(""), SegFence("documents"), SegJson(JChecklist), SegFence("")>>),
       Str(<<SegProse, SegFence("json"), SegJson(JAssessment("low", {})), SegFence("")>>),
       Str(<<SegProse>>),
       Str(<<SegFence("json"), SegJson(JAssessment("extreme", {"pep"})), SegFence(""),
             SegFence("documents"), SegJson(JChecklist), SegFence("")>>),
       Str(<<SegFence("json"), SegJson(JAssessment("low", {})), SegFence(""),
             SegFence("json"), SegJson(JAssessment("critical", {"pep"})), SegFence("")>>) >>

(***************************************************************************)
(* What the body of an agent's try block observes of the remote service up *)
(* to and including _process_run: an exception raised by the transport     *)
(* (threads.create, messages.create, runs.create_and_process, get_run,     *)
(* messages.list), or the value _process_run returned.                     *)
(***************************************************************************)
RunRaised == [k |-> "raise", v |-> None]
RunReturned(v) == [k |-> "return", v |-> v]

\* an agent that lets the errors of its try block escape
generate_questionnaire_unguarded(client_profile, run) ==
    IF run.k = "raise" THEN Raise("Exception")
    ELSE IF ~Truthy(run.v) THEN Raise("Exception")
    ELSE parse_questionnaire_response(run.v, client_profile.customer_id)

generate_questionnaire(client_profile, run) ==
    IF run.k = "raise"
    THEN Ok(generate_fallback_questionnaire(client_profile, FALSE))
    ELSE IF ~Truthy(run.v)
    THEN Ok(generate_fallback_questionnaire(client_profile, FALSE))
    ELSE LET parsed == parse_questionnaire_response(run.v, client_profile.customer_id)
         IN  IF parsed.exc # "none"
             THEN \* except Exception
                  Ok(generate_fallback_questionnaire(client_profile, FALSE))
             ELSE parsed

\* q.questionnaire_id = f"followup-{q.questionnaire_id}"
PrefixFollowup(q) == [q EXCEPT !.questionnaire_id = <<"followup-">> \o @]

\* a follow-up agent whose except clause returns the initial fallback
generate_followup_questionnaire_unmarked(client_profile, run) ==
    IF run.k = "raise"
    THEN Ok(generate_fallback_questionnaire(client_profile, FALSE))
    ELSE IF ~Truthy(run.v)
    THEN Ok(PrefixFollowup(generate_fallback_questionnaire(client_profile, TRUE)))
    ELSE LET parsed == parse_questionnaire_response(run.v, client_profile.customer_id)
         IN  IF parsed.exc # "none"
             THEN Ok(generate_fallback_questionnaire(client_profile, FALSE))
             ELSE Ok(PrefixFollowup(parsed.v))

generate_followup_questionnaire(client_profile, run) ==
    IF run.k = "raise"
    THEN Ok(generate_fallback_questionnaire(client_profile, TRUE))
    ELSE IF ~Truthy(run.v)
    THEN Ok(PrefixFollowup(generate_fallback_questionnaire(client_profile, TRUE)))
    ELSE LET parsed == parse_questionnaire_response(run.v, client_profile.customer_id)
         IN  IF parsed.exc # "none"
             THEN Ok(generate_fallback_questionnaire(client_profile, TRUE))
             ELSE Ok(PrefixFollowup(parsed.v))

(***************************************************************************)
(* Response texts of the question-generation service used as inputs        *)
(***************************************************************************)
JQuestion(fid, qt, req) ==
    JObj([field_id |-> JStr(fid), question_type |-> JStr(qt), required |-> JBool(req)])

JSectionsDoc(sections) == JObj([client_type |-> JStr("Corporate"), sections |-> sections])

GoodQuestionnaireJson ==
    JSectionsDoc(JList(<< JObj([section_id |-> JStr("s1"),
                               questions |-> JList(<<JQuestion("q1", "text", FALSE),
                                                     JQuestion("q2", "yes_no", TRUE)>>)]) >>))

QuestionnaireTexts ==
    << Str(<<SegJson(GoodQuestionnaireJson)>>),
       Str(<<SegProse, SegFence("json"), SegJson(GoodQuestionnaireJson), SegFence(""), SegProse>>),
       Str(<<SegFence(""), SegJson(GoodQuestionnaireJson), SegFence("")>>),
       Str(<<SegProse>>),
       Str(<<SegJson(GoodQuestionnaireJson), SegProse>>),
       Str(<<SegFence("documents"), SegJson(GoodQuestionnaireJson), SegFence("")>>),
       Str(<<SegFence("json"), SegProse, SegFence("")>>),
       Str(<<SegJson(JList(<<>>))>>),
       Str(<<SegJson(JObj([client_type |-> JStr("Trust")]))>>),
       Str(<<SegJson(JSectionsDoc(JList(<<>>)))>>),
       Str(<<SegJson(JSectionsDoc(JNull))>>),
       Str(<<SegJson(JSectionsDoc(JList(<< JObj([questions |->
                JList(<<JQuestion("q1", "slider", TRUE)>>)]) >>)))>>),
       Str(<<SegJson(JSectionsDoc(JList(<<JStr("identity")>>)))>>) >>

\* json.loads fails on the text the questionnaire parser hands it
Unparsable(text) == JsonLoads(QuestionnaireJsonText(text.segs)).exc = "JSONDecodeError"


(***************************************************************************)
(* _process_run: the poll loop of both agents (the two copies are the same *)
(* code).  Durations in 1/128 s.                                           *)
(***************************************************************************)
PollDelayInitial == 64      \* poll_delay = 0.5
BackoffCap == 640           \* 5.0 in min(poll_delay * 1.5, 5.0)
MaxWait == 15360            \* max_wait = 120

NonTerminal == {"queued", "in_progress", "requires_action"}
RunStatuses == NonTerminal \cup {"completed", "failed", "cancelled", "expired"}

Min(a, b) == IF a <= b THEN a ELSE b

\* a backoff that doubles instead of growing by half
NextPollDelayDoubling(d) == Min(d * 2, BackoffCap)

\* poll_delay = min(poll_delay * 1.5, 5.0)
NextPollDelay(d) == Min((d * 3) \div 2, BackoffCap)

\* a loop that never gives up waiting
TimedOutNever(total, delay) == FALSE

\* `if total_wait > max_wait` (delay is the sleep that was just added)
TimedOut(total, delay) == total > MaxWait

\* messages as messages.list returns them: role, and the text of the first
\* content part (None when the content has no text part)
Message(role, text) == [role |-> role, text |-> text]

\* msg.content[0].text.value, or str(msg.content) when that fails
MessageText(msg) == IF msg.text.k = "text" THEN msg.text ELSE Str(<<SegProse>>)

\* a reader that takes the last assistant message of the list
RECURSIVE LastAssistantText(_)
LastAssistantText(msgs) ==
    IF msgs = <<>> THEN None
    ELSE IF msgs[Len(msgs)].role = "assistant" THEN MessageText(msgs[Len(msgs)])
    ELSE LastAssistantText(SubSeq(msgs, 1, Len(msgs) - 1))

\* for msg in messages: if role == "assistant": return its text; return None
RECURSIVE FirstAssistantText(_)
FirstAssistantText(msgs) ==
    IF msgs = <<>> THEN None
    ELSE IF Head(msgs).role = "assistant" THEN MessageText(Head(msgs))
    ELSE FirstAssistantText(Tail(msgs))

\* the lists messages.list may return, newest message first, when the run
\* produced the text `out` (None: the run produced no assistant message);
\* `old` is an assistant message of an earlier run on the same thread
MessageLists(out, old) ==
    IF out.k = "none"
    THEN << <<>>, <<Message("user", Str(<<SegProse>>))>>,
            <<Message("assistant", None), Message("user", Str(<<SegProse>>))>> >>
    ELSE << <<Message("assistant", out)>>,
            <<Message("assistant", out), Message("user", Str(<<SegProse>>))>>,
            <<Message("assistant", out), Message("user", Str(<<SegProse>>)),
              Message("assistant", old), Message("user", Str(<<SegProse>>))>> >>

VARIABLES
    caller,      \* the agent method whose try block is running
    profile,     \* its client_profile argument
    pc,          \* position in the method / in _process_run
    run_status,  \* run.status as last observed
    poll_delay,  \* _process_run's poll_delay
    total_wait,  \* _process_run's total_wait
    sleeps,      \* history: the durations passed to asyncio.sleep, in order
    polls,       \* history: number of get_run calls
    submits,     \* history: number of create_and_process calls
    observed,    \* history: number of non-terminal statuses observed
    cause,       \* history: what went wrong remotely ("none" if nothing)
    output,      \* history: the text the run produced (None if none)
    run_out,     \* what the try block observed: RunRaised or RunReturned(v)
    result       \* what the agent method returned (or raised)

run_vars == <<caller, profile, pc, run_status, poll_delay, total_wait, sleeps,
              polls, submits, observed, cause, output, run_out, result>>

\* the coordinator's state (agents.py ECDDAgentCoordinator), unchanged while a
\* single agent call is traced
VARIABLES
    sessions,   \* self._sessions: session id i is the i-th element
    pending,    \* the calls suspended at `await self._reporter_agent...`
    last_call,  \* history: the call that returned, raised or suspended last
    nops        \* history: number of coordinator calls made so far

coord_vars == <<sessions, pending, last_call, nops>>

\* one call of a pure function of the program: its arguments and its result
VARIABLES
    fcall,      \* the function called and its arguments
    fret        \* what it returned or raised (None before the call)

pure_vars == <<fcall, fret>>

\* the report agent's conversation handles (reporter_agent.py)
VARIABLES
    threads,    \* self._threads: session id -> thread id
    tcalls,     \* the calls in flight, each with its position and its local thread_id
    created,    \* history: the session id each threads.create() call was made for
    sent        \* history: the messages sent, each with its session id and thread id

thread_vars == <<threads, tcalls, created, sent>>

\* the session manager (session.py)
VARIABLES
    sm_sessions,    \* self._sessions: session id -> session held in memory
    write_buffer,   \* self._write_buffer: the session ids marked as needing a save
    disk,           \* the session files: session id -> persisted record
    sm_call,        \* the last call and what it returned
    sm_ops          \* calls made so far; the clock of the session manager

store_vars == <<sm_sessions, write_buffer, disk, sm_call, sm_ops>>

vars == <<coord_vars, run_vars, pure_vars, thread_vars, store_vars>>

Callers == {"generate_questionnaire", "generate_assessment"}

\* the response texts a caller's service may produce
TextsOf(c) == IF c = "generate_questionnaire" THEN QuestionnaireTexts ELSE AssessmentTexts

\* what a run may leave as its newest assistant message: nothing, an empty
\* text, or one of the texts
OutputsOf(c) == <<None, Str(<<>>)>> \o TextsOf(c)

RunInit ==
    /\ caller \in Callers
    /\ \E i \in 1..Len(Profiles) : profile = Profiles[i]
    /\ pc = "create_thread"
    /\ run_status = "none"
    /\ poll_delay = PollDelayInitial
    /\ total_wait = 0
    /\ sleeps = <<>>
    /\ polls = 0
    /\ submits = 0
    /\ observed = 0
    /\ cause = "none"
    /\ output = None
    /\ run_out = None
    /\ result = None

\* an exception of the transport reaches the caller's except clause
TransportRaises ==
    /\ pc \in {"create_thread", "create_message", "create_run", "get_run", "list_messages"}
    /\ cause' = "transport"
    /\ run_out' = RunRaised
    /\ pc' = "process_done"
    /\ UNCHANGED <<caller, profile, run_status, poll_delay, total_wait, sleeps,
                   polls, submits, observed, output, result>>
    /\ UNCHANGED <<coord_vars, pure_vars, thread_vars, store_vars>>

\* self._client.agents.threads.create()
CreateThread ==
    /\ pc = "create_thread"
    /\ pc' = "create_message"
    /\ UNCHANGED <<caller, profile, run_status, poll_delay, total_wait, sleeps,
                   polls, submits, observed, cause, output, run_out, result>>
    /\ UNCHANGED <<coord_vars, pure_vars, thread_vars, store_vars>>

\* self._client.agents.messages.create(thread_id, role="user", content=prompt)
CreateMessage ==
    /\ pc = "create_message"
    /\ pc' = "create_run"
    /\ UNCHANGED <<caller, profile, run_status, poll_delay, total_wait, sleeps,
                   polls, submits, observed, cause, output, run_out, result>>
    /\ UNCHANGED <<coord_vars, pure_vars, thread_vars, store_vars>>

\* run = runs.create_and_process(...); poll_delay = 0.5; total_wait = 0
CreateAndProcess ==
    /\ pc = "create_run"
    /\ \E st \in RunStatuses :
         /\ run_status' = st
         /\ observed' = IF st \in NonTerminal THEN observed + 1 ELSE observed
    /\ submits' = submits + 1
    /\ poll_delay' = PollDelayInitial
    /\ total_wait' = 0
    /\ pc' = "loop"
    /\ UNCHANGED <<caller, profile, sleeps, polls, cause, output, run_out, result>>
    /\ UNCHANGED <<coord_vars, pure_vars, thread_vars, store_vars>>

\* while run.status in [...]: await asyncio.sleep(poll_delay); total_wait += poll_delay
Sleep ==
    /\ pc = "loop"
    /\ run_status \in NonTerminal
    /\ sleeps' = Append(sleeps, poll_delay)
    /\ total_wait' = total_wait + poll_delay
    /\ pc' = "get_run"
    /\ UNCHANGED <<caller, profile, run_status, poll_delay, polls, submits,
                   observed, cause, output, run_out, result>>
    /\ UNCHANGED <<coord_vars, pure_vars, thread_vars, store_vars>>

\* a loop that asks for the status once more before it gives up
TimeOutAfterPoll ==
    /\ pc = "get_run"
    /\ TimedOut(total_wait, poll_delay)
    /\ polls' = polls + 1
    /\ cause' = "timeout"
    /\ run_out' = RunReturned(None)
    /\ pc' = "process_done"
    /\ UNCHANGED <<caller, profile, run_status, poll_delay, total_wait, sleeps,
                   submits, observed, output, result>>
    /\ UNCHANGED <<coord_vars, pure_vars, thread_vars, store_vars>>

\* if total_wait > max_wait: return None
TimeOut ==
    /\ pc = "get_run"
    /\ TimedOut(total_wait, poll_delay)
    /\ cause' = "timeout"
    /\ run_out' = RunReturned(None)
    /\ pc' = "process_done"
    /\ UNCHANGED <<caller, profile, run_status, poll_delay, total_wait, sleeps,
                   polls, submits, observed, output, result>>
    /\ UNCHANGED <<coord_vars, pure_vars, thread_vars, store_vars>>

\* run = get_run(...); poll_delay = min(poll_delay * 1.5, 5.0)
GetRun ==
    /\ pc = "get_run"
    /\ ~TimedOut(total_wait, poll_delay)
    /\ \E st \in RunStatuses :
         /\ run_status' = st
         /\ observed' = IF st \in NonTerminal THEN observed + 1 ELSE observed
    /\ polls' = polls + 1
    /\ poll_delay' = NextPollDelay(poll_delay)
    /\ pc' = "loop"
    /\ UNCHANGED <<caller, profile, total_wait, sleeps, submits, cause, output,
                   run_out, result>>
    /\ UNCHANGED <<coord_vars, pure_vars, thread_vars, store_vars>>

\* a loop that takes a failed run for a finished one and reads its messages
RunFailedIgnored ==
    /\ pc = "loop"
    /\ run_status = "failed"
    /\ pc' = "list_messages"
    /\ UNCHANGED <<caller, profile, run_status, poll_delay, total_wait, sleeps,
                   polls, submits, observed, cause, output, run_out, result>>
    /\ UNCHANGED <<coord_vars, pure_vars, thread_vars, store_vars>>

\* if run.status == "failed": return None
RunFailed ==
    /\ pc = "loop"
    /\ run_status = "failed"
    /\ cause' = "failed"
    /\ run_out' = RunReturned(None)
    /\ pc' = "process_done"
    /\ UNCHANGED <<caller, profile, run_status, poll_delay, total_wait, sleeps,
                   polls, submits, observed, output, result>>
    /\ UNCHANGED <<coord_vars, pure_vars, thread_vars, store_vars>>

\* the loop is left with a status that is neither non-terminal nor failed
LoopExit ==
    /\ pc = "loop"
    /\ run_status \notin NonTerminal
    /\ run_status # "failed"
    /\ pc' = "list_messages"
    /\ UNCHANGED <<caller, profile, run_status, poll_delay, total_wait, sleeps,
                   polls, submits, observed, cause, output, run_out, result>>
    /\ UNCHANGED <<coord_vars, pure_vars, thread_vars, store_vars>>

\* messages = messages.list(thread_id); return the first assistant text
ListMessages ==
    /\ pc = "list_messages"
    /\ \E i \in 1..Len(OutputsOf(caller)) :
         LET out == OutputsOf(caller)[i]
             lists == MessageLists(out, TextsOf(caller)[1])
         IN  \E j \in 1..Len(lists) :
               /\ output' = out
               /\ run_out' = RunReturned(FirstAssistantText(lists[j]))
               /\ cause' = IF Truthy(FirstAssistantText(lists[j])) THEN "none" ELSE "empty"
    /\ pc' = "process_done"
    /\ UNCHANGED <<caller, profile, run_status, poll_delay, total_wait, sleeps,
                   polls, submits, observed, result>>
    /\ UNCHANGED <<coord_vars, pure_vars, thread_vars, store_vars>>

\* the rest of the caller: fallback or parse, and return
CallerReturns ==
    /\ pc = "process_done"
    /\ result' = IF caller = "generate_questionnaire"
                 THEN generate_questionnaire(profile, run_out)
                 ELSE generate_assessment(profile, run_out)
    /\ pc' = "returned"
    /\ UNCHANGED <<caller, profile, run_status, poll_delay, total_wait, sleeps,
                   polls, submits, observed, cause, output, run_out>>
    /\ UNCHANGED <<coord_vars, pure_vars, thread_vars, store_vars>>

RunNext ==
    \/ TransportRaises
    \/ CreateThread
    \/ CreateMessage
    \/ CreateAndProcess
    \/ Sleep
    \/ TimeOut
    \/ GetRun
    \/ RunFailed
    \/ LoopExit
    \/ ListMessages
    \/ CallerReturns



(***************************************************************************)
(* Properties of the remote-run protocol (checked under SpecRun)           *)
(***************************************************************************)
Finished == pc \in {"process_done", "returned"}

\* the fixed fallback questionnaire: 3 sections (identity, source of wealth,
\* source of funds), each with at least one required question
IsFixedFallback(q) ==
    /\ q.k = "questionnaire"
    /\ q.profile_summary = "fallback"
    /\ Len(q.sections) = 3
    /\ q.sections[1].section_id = <<"identity">>
    /\ q.sections[2].section_id = <<"sow">>
    /\ q.sections[3].section_id = <<"sof">>
    /\ \A i \in 1..3 : \E j \in 1..Len(q.sections[i].questions) :
          q.sections[i].questions[j].required

\* the question-generation back-end failed in one of the ways C3 lists
QuestionBackendFailed ==
    \/ cause \in {"transport", "timeout", "failed", "empty"}
    \/ run_out.k = "return" /\ Truthy(run_out.v) /\ Unparsable(run_out.v)

\* C3: for every failure kind of the question-generation back-end (poll
\* timeout, run failed, empty output, unparsable output, transport
\* exception) generate_questionnaire raises nothing and returns the fixed
\* three-section fallback questionnaire.
C3_FallbackOnEveryFailure ==
    (pc = "returned" /\ caller = "generate_questionnaire" /\ QuestionBackendFailed)
        => /\ result.exc = "none"
           /\ IsFixedFallback(result.v)
           /\ result.v.customer_id = profile.customer_id

C3_Witness ==
    /\ pc = "returned" /\ caller = "generate_questionnaire"
    /\ run_out.k = "return" /\ Truthy(run_out.v) /\ Unparsable(run_out.v)
    /\ IsFixedFallback(result.v)

\* C5: when the deadline passes, the loop returns the timeout outcome (None),
\* makes no status poll after deciding to time out (every sleep but the last
\* was followed by one poll) and submits the operation exactly once: it is
\* neither resubmitted nor retried, also after the caller has returned.
C5_NoPollAfterTimeout ==
    cause = "timeout"
        => /\ Finished
           /\ run_out = RunReturned(None)
           /\ polls = Len(sleeps) - 1
           /\ submits = 1

C5_Witness == cause = "timeout" /\ pc = "returned" /\ polls = Len(sleeps) - 1

\* min(0.5 * 1.5^(k-1), 5.0) in 1/128 s, for k within ClosedFormMaxK
ClosedForm(k) ==
    LET e == k - 1
    IN  IF PollDelayInitial * 3^e >= BackoffCap * 2^e
        THEN BackoffCap
        ELSE (PollDelayInitial * 3^e) \div 2^e

\* the interval C6 prescribes for the k-th sleep; beyond ClosedFormMaxK (where
\* 3^(k-1) leaves TLC's integers) it is the cap, which the closed form
\* has reached by then
Backoff(k) == IF k <= ClosedFormMaxK THEN ClosedForm(k) ELSE BackoffCap

\* C6: the k-th sleep lasts min(0.5 * 1.5^(k-1), 5.0) seconds: the first is
\* 0.5 s, each next one is 1.5 times the previous one up to the cap, the
\* sequence is non-decreasing and never above 5 s.
C6_BackoffSchedule ==
    /\ \A k \in 1..Len(sleeps) :
          /\ sleeps[k] = Backoff(k)
          /\ sleeps[k] <= BackoffCap
    /\ Len(sleeps) >= 1 => sleeps[1] = PollDelayInitial
    /\ \A k \in 1..(Len(sleeps) - 1) :
          /\ sleeps[k] <= sleeps[k + 1]
          /\ 2 * sleeps[k + 1] = Min(3 * sleeps[k], 2 * BackoffCap)
    /\ ClosedForm(ClosedFormMaxK) = BackoffCap

C6_Witness == Len(sleeps) = 9 /\ sleeps[6] < BackoffCap /\ sleeps[7] = BackoffCap

\* C7 (as claimed): the cumulative wait when the loop returns is at most 120 s
C7_TotalWaitAtMost120 == Finished => total_wait <= MaxWait

RECURSIVE SumBackoff(_)
SumBackoff(n) == IF n = 0 THEN 0 ELSE SumBackoff(n - 1) + Backoff(n)

\* C8: a run observed non-terminal n times and then completed (no transport
\* error, deadline not reached) makes the loop sleep exactly the first n
\* backoff intervals and return the text the run produced; for n = 3 the
\* elapsed backoff is 0.5 + 0.75 + 1.125 s or more.
C8_SuccessAfterNPolls ==
    (Finished /\ run_status = "completed" /\ run_out.k = "return")
        => /\ Len(sleeps) = observed
           /\ \A k \in 1..observed : sleeps[k] = Backoff(k)
           /\ total_wait = SumBackoff(observed)
           /\ observed = 3 => total_wait >= 64 + 96 + 144
           /\ output.k = "text" => run_out.v = output

C8_Witness ==
    /\ pc = "process_done" /\ run_status = "completed" /\ observed = 3
    /\ Truthy(output) /\ run_out = RunReturned(output)
    /\ sleeps = <<64, 96, 144>>

Statuses ==
    {"pending", "questionnaire_generated", "in_progress", "responses_submitted",
     "reports_generated", "pending_review", "approved", "escalated", "rejected", "error"}

\* responses: field id -> answer, NoAnswer for a field the dict does not hold
Fields == {"a", "b", "c"}
NoAnswer == 0
Responses(a, b, c) == [f \in Fields |-> CASE f = "a" -> a [] f = "b" -> b [] f = "c" -> c]
EmptyResponses == Responses(NoAnswer, NoAnswer, NoAnswer)

ResponseInputs == << Responses(1, 2, NoAnswer), Responses(NoAnswer, 3, 4) >>

\* a merge in which the original answers win
MergeParentWins(parent, child) ==
    [f \in Fields |-> IF parent[f] # NoAnswer THEN parent[f] ELSE child[f]]

\* {**(parent_session.responses or {}), **responses}
Merge(parent, child) ==
    [f \in Fields |-> IF child[f] # NoAnswer THEN child[f] ELSE parent[f]]

\* parent_session_id = None
NoParent == 0

\* datetime.now(timezone.utc) as a call begins (the nops + 1st call), and as a
\* suspended call resumes: later than the calls begun so far, earlier than
\* the next one
TimeOfCall == 2 * nops + 1
TimeOfResume == 2 * nops

\* QuestionnaireSession(...); assessed_with is history: the responses that were
\* passed to the generate_assessment call whose result the session holds
QuestionnaireSession(session_id, client_profile, status, questionnaire, is_followup, parent) ==
    [session_id |-> session_id, customer_id |-> client_profile.customer_id,
     status |-> status, client_profile |-> client_profile,
     questionnaire |-> questionnaire, responses |-> EmptyResponses,
     ecdd_assessment |-> None, document_checklist |-> None,
     review_decision |-> "none", reviewed_at |-> FALSE,
     is_followup |-> is_followup, parent_session_id |-> parent,
     created_at |-> TimeOfCall, updated_at |-> TimeOfCall,
     assessed_with |-> EmptyResponses]

SessionIds == 1..MaxSessions

\* a session id the store never holds (uuid4 ids are handed out by the
\* coordinator only)
UnknownId == MaxSessions + 1

\* the profiles sessions are created for
SessionProfiles == <<Profiles[1], Profiles[2]>>
Exists(sid) == sid \in 1..Len(sessions)

\* what the two services may do during one call, as the try block sees it
QuestionRuns == <<RunRaised, RunReturned(None), RunReturned(QuestionnaireTexts[2])>>
ReportRuns == <<RunRaised, RunReturned(None), RunReturned(AssessmentTexts[1])>>

\* the run was a failure or a timeout of the service
Outage(run) == run.k = "raise" \/ run.v = None

Decisions == {"approved", "rejected", "escalated", "deferred"}

Call(op, sid, exc, outage) == [op |-> op, sid |-> sid, exc |-> exc, outage |-> outage]

\* the agents' results for the profiles and runs above, tabulated
ProfileSet == {SessionProfiles[i] : i \in 1..Len(SessionProfiles)}
QuestionnaireFor == [p \in ProfileSet, r \in 1..Len(QuestionRuns) |->
                        generate_questionnaire(p, QuestionRuns[r])]
FollowupFor == [p \in ProfileSet, r \in 1..Len(QuestionRuns) |->
                   generate_followup_questionnaire(p, QuestionRuns[r])]
AssessmentFor == [p \in ProfileSet, r \in 1..Len(ReportRuns) |->
                     generate_assessment(p, ReportRuns[r])]

CoordInit ==
    /\ sessions = <<>>
    /\ pending = <<>>
    /\ last_call = Call("none", 0, "none", FALSE)
    /\ nops = 0

\* a store that registers the id it is asked for before the call raises
NotFoundRegistering(op) ==
    /\ nops < MaxOps
    /\ Len(sessions) < MaxSessions
    /\ sessions' = Append(sessions,
          QuestionnaireSession(Len(sessions) + 1, SessionProfiles[1], "pending", None,
                               FALSE, NoParent))
    /\ last_call' = Call(op, UnknownId, "ValueError", FALSE)
    /\ nops' = nops + 1
    /\ UNCHANGED pending
    /\ UNCHANGED <<run_vars, pure_vars, thread_vars, store_vars>>

\* a call with a session id that is not in the store: raise ValueError
NotFound(op) ==
    /\ nops < MaxOps
    /\ ~Exists(UnknownId)
    /\ last_call' = Call(op, UnknownId, "ValueError", FALSE)
    /\ nops' = nops + 1
    /\ UNCHANGED <<sessions, pending>>
    /\ UNCHANGED <<run_vars, pure_vars, thread_vars, store_vars>>

SessionNotFound ==
    \E op \in {"submit_responses", "complete_review", "generate_followup",
               "generate_followup_and_continue", "submit_followup_responses",
               "answer_query", "get_ecdd_output"} :
       NotFound(op)

\* create_session(client_profile)
CreateSession ==
    /\ nops < MaxOps
    /\ Len(sessions) < MaxSessions
    /\ \E i \in 1..Len(SessionProfiles), r \in 1..Len(QuestionRuns) :
         LET q == QuestionnaireFor[SessionProfiles[i], r]
             sid == Len(sessions) + 1
         IN  /\ q.exc = "none"
             /\ sessions' = Append(sessions,
                   QuestionnaireSession(sid, SessionProfiles[i], "questionnaire_generated",
                                        q.v, FALSE, NoParent))
             /\ last_call' = Call("create_session", sid, "none", Outage(QuestionRuns[r]))
    /\ nops' = nops + 1
    /\ UNCHANGED pending
    /\ UNCHANGED <<run_vars, pure_vars, thread_vars, store_vars>>

\* submit_responses up to `await self._reporter_agent.generate_assessment(...)`
SubmitResponsesBegin ==
    /\ nops < MaxOps
    /\ Len(pending) < MaxPending
    /\ \E sid \in SessionIds, i \in 1..Len(ResponseInputs) :
         /\ Exists(sid)
         /\ sessions' = [sessions EXCEPT ![sid].responses = ResponseInputs[i],
                                         ![sid].status = "responses_submitted",
                                         ![sid].updated_at = TimeOfCall]
         /\ pending' = Append(pending,
               [op |-> "submit_responses", sid |-> sid, submitted |-> ResponseInputs[i],
                questionnaire_responses |-> ResponseInputs[i]])
         /\ last_call' = Call("submit_responses", sid, "awaiting", FALSE)
    /\ nops' = nops + 1
    /\ UNCHANGED <<run_vars, pure_vars, thread_vars, store_vars>>

\* a return that stores, with the assessment, the responses it was generated
\* from
AssessmentReturnsWithResponses ==
    \E n \in 1..Len(pending), r \in 1..Len(ReportRuns) :
         LET c == pending[n]
             res == AssessmentFor[sessions[c.sid].client_profile, r]
         IN  /\ pending' = SubSeq(pending, 1, n - 1) \o SubSeq(pending, n + 1, Len(pending))
             /\ IF res.exc # "none"
                THEN /\ sessions' = sessions
                     /\ last_call' = Call(c.op, c.sid, res.exc, Outage(ReportRuns[r]))
                ELSE /\ sessions' = [sessions EXCEPT
                                       ![c.sid].ecdd_assessment = res.v[1],
                                       ![c.sid].document_checklist = res.v[2],
                                       ![c.sid].responses = c.questionnaire_responses,
                                       ![c.sid].status = "reports_generated",
                                       ![c.sid].updated_at = TimeOfResume,
                                       ![c.sid].assessed_with = c.questionnaire_responses]
                     /\ last_call' = Call(c.op, c.sid, "none", Outage(ReportRuns[r]))
             /\ UNCHANGED <<nops, run_vars, pure_vars, thread_vars, store_vars>>

\* a resumption that marks the reports generated and attaches no checklist
AssessmentReturnsNoChecklist ==
    \E n \in 1..Len(pending), r \in 1..Len(ReportRuns) :
         LET c == pending[n]
             res == AssessmentFor[sessions[c.sid].client_profile, r]
         IN  /\ pending' = SubSeq(pending, 1, n - 1) \o SubSeq(pending, n + 1, Len(pending))
             /\ IF res.exc # "none"
                THEN /\ sessions' = sessions
                     /\ last_call' = Call(c.op, c.sid, res.exc, Outage(ReportRuns[r]))
                ELSE /\ sessions' = [sessions EXCEPT
                                       ![c.sid].ecdd_assessment = res.v[1],
                                       ![c.sid].status = "reports_generated",
                                       ![c.sid].updated_at = TimeOfResume,
                                       ![c.sid].assessed_with = c.questionnaire_responses]
                     /\ last_call' = Call(c.op, c.sid, "none", Outage(ReportRuns[r]))
             /\ UNCHANGED <<nops, run_vars, pure_vars, thread_vars, store_vars>>

\* the rest of submit_responses / submit_followup_responses, once
\* generate_assessment has returned
AssessmentReturns ==
    \E n \in 1..Len(pending), r \in 1..Len(ReportRuns) :
         LET c == pending[n]
             res == AssessmentFor[sessions[c.sid].client_profile, r]
         IN  /\ pending' = SubSeq(pending, 1, n - 1) \o SubSeq(pending, n + 1, Len(pending))
             /\ IF res.exc # "none"
                THEN /\ sessions' = sessions
                     /\ last_call' = Call(c.op, c.sid, res.exc, Outage(ReportRuns[r]))
                ELSE /\ sessions' = [sessions EXCEPT
                                       ![c.sid].ecdd_assessment = res.v[1],
                                       ![c.sid].document_checklist = res.v[2],
                                       ![c.sid].status = "reports_generated",
                                       ![c.sid].updated_at = TimeOfResume,
                                       ![c.sid].assessed_with = c.questionnaire_responses]
                     /\ last_call' = Call(c.op, c.sid, "none", Outage(ReportRuns[r]))
             /\ UNCHANGED <<nops, run_vars, pure_vars, thread_vars, store_vars>>

\* a complete_review that leaves updated_at as it was
CompleteReviewKeepsTime ==
    /\ nops < MaxOps
    /\ \E sid \in SessionIds, d \in Decisions :
         /\ Exists(sid)
         /\ sessions' = [sessions EXCEPT
               ![sid].review_decision = d,
               ![sid].reviewed_at = TRUE,
               ![sid].status = CASE d = "approved" -> "approved"
                                 [] d = "rejected" -> "rejected"
                                 [] d = "escalated" -> "escalated"
                                 [] OTHER -> @]
         /\ last_call' = Call("complete_review", sid, "none", FALSE)
    /\ nops' = nops + 1
    /\ UNCHANGED pending
    /\ UNCHANGED <<run_vars, pure_vars, thread_vars, store_vars>>

\* complete_review(session_id, decision)
CompleteReview ==
    /\ nops < MaxOps
    /\ \E sid \in SessionIds, d \in Decisions :
         /\ Exists(sid)
         /\ sessions' = [sessions EXCEPT
               ![sid].review_decision = d,
               ![sid].reviewed_at = TRUE,
               ![sid].status = CASE d = "approved" -> "approved"
                                 [] d = "rejected" -> "rejected"
                                 [] d = "escalated" -> "escalated"
                                 [] OTHER -> @,
               ![sid].updated_at = TimeOfCall]
         /\ last_call' = Call("complete_review", sid, "none", FALSE)
    /\ nops' = nops + 1
    /\ UNCHANGED pending
    /\ UNCHANGED <<run_vars, pure_vars, thread_vars, store_vars>>

\* what a completed follow-up request leaves in last_call: the id of the new
\* session, and the session_id argument of the call
FollowupCall(op, new, parent, outage) ==
    Call(op, new, "none", outage) @@ [parent |-> parent]

\* a follow-up request that registers the new session without its linkage
UnlinkedFollowupSession(new, parent, q) ==
    QuestionnaireSession(new, sessions[parent].client_profile,
                         "questionnaire_generated", q, FALSE, NoParent)

\* a follow-up request that links the new session to an id the store does
\* not hold
DanglingFollowupSession(new, parent, q) ==
    QuestionnaireSession(new, sessions[parent].client_profile,
                         "questionnaire_generated", q, TRUE, new + 1)

\* followup_session = QuestionnaireSession(..., is_followup=True,
\*                                         parent_session_id=session_id)
FollowupSession(new, parent, q) ==
    QuestionnaireSession(new, sessions[parent].client_profile,
                         "questionnaire_generated", q, TRUE, parent)

\* generate_followup(session_id, stakeholder_feedback): registers a follow-up
\* session and returns the questionnaire only
GenerateFollowup ==
    /\ nops < MaxOps
    /\ Len(sessions) < MaxSessions
    /\ \E sid \in SessionIds, r \in 1..Len(QuestionRuns) :
         /\ Exists(sid)
         /\ LET q == FollowupFor[sessions[sid].client_profile, r]
                new == Len(sessions) + 1
            IN  /\ sessions' = Append(sessions, FollowupSession(new, sid, q.v))
                /\ last_call' = FollowupCall("generate_followup", new, sid,
                                             Outage(QuestionRuns[r]))
    /\ nops' = nops + 1
    /\ UNCHANGED pending
    /\ UNCHANGED <<run_vars, pure_vars, thread_vars, store_vars>>

\* generate_followup_and_continue(session_id, stakeholder_feedback)
GenerateFollowupAndContinue ==
    /\ nops < MaxOps
    /\ Len(sessions) < MaxSessions
    /\ \E sid \in SessionIds, r \in 1..Len(QuestionRuns) :
         /\ Exists(sid)
         /\ LET q == FollowupFor[sessions[sid].client_profile, r]
                new == Len(sessions) + 1
            IN  /\ sessions' = Append(sessions, FollowupSession(new, sid, q.v))
                /\ last_call' = FollowupCall("generate_followup_and_continue", new, sid,
                                             Outage(QuestionRuns[r]))
    /\ nops' = nops + 1
    /\ UNCHANGED pending
    /\ UNCHANGED <<run_vars, pure_vars, thread_vars, store_vars>>

\* a submit_followup_responses that stores the submitted responses before it
\* looks at the linkage
SubmitFollowupRejectedLate ==
    /\ nops < MaxOps
    /\ \E sid \in SessionIds, i \in 1..Len(ResponseInputs) :
         /\ Exists(sid)
         /\ \/ ~sessions[sid].is_followup
            \/ sessions[sid].parent_session_id = NoParent
            \/ ~Exists(sessions[sid].parent_session_id)
         /\ sessions' = [sessions EXCEPT ![sid].responses = ResponseInputs[i]]
         /\ last_call' = Call("submit_followup_responses", sid, "ValueError", FALSE)
    /\ nops' = nops + 1
    /\ UNCHANGED pending
    /\ UNCHANGED <<run_vars, pure_vars, thread_vars, store_vars>>

\* submit_followup_responses on a session that is not a follow-up, or whose
\* parent is not in the store: raise ValueError
SubmitFollowupRejected ==
    /\ nops < MaxOps
    /\ \E sid \in SessionIds :
         /\ Exists(sid)
         /\ \/ ~sessions[sid].is_followup
            \/ sessions[sid].parent_session_id = NoParent
            \/ ~Exists(sessions[sid].parent_session_id)
         /\ last_call' = Call("submit_followup_responses", sid, "ValueError", FALSE)
    /\ nops' = nops + 1
    /\ UNCHANGED <<sessions, pending>>
    /\ UNCHANGED <<run_vars, pure_vars, thread_vars, store_vars>>

\* a submit_followup_responses that writes the merged responses back to the
\* parent as well
SubmitFollowupBeginWritesParent ==
    /\ nops < MaxOps
    /\ Len(pending) < MaxPending
    /\ \E sid \in SessionIds, i \in 1..Len(ResponseInputs) :
         /\ Exists(sid)
         /\ sessions[sid].is_followup
         /\ sessions[sid].parent_session_id # NoParent
         /\ Exists(sessions[sid].parent_session_id)
         /\ LET parent == sessions[sessions[sid].parent_session_id]
                combined == Merge(parent.responses, ResponseInputs[i])
            IN  /\ sessions' = [sessions EXCEPT
                                  ![sid].responses = combined,
                                  ![sessions[sid].parent_session_id].responses = combined]
                /\ pending' = Append(pending,
                      [op |-> "submit_followup_responses", sid |-> sid,
                       submitted |-> ResponseInputs[i],
                       questionnaire_responses |-> combined])
                /\ last_call' = Call("submit_followup_responses", sid, "awaiting", FALSE)
    /\ nops' = nops + 1
    /\ UNCHANGED <<run_vars, pure_vars, thread_vars, store_vars>>

\* submit_followup_responses up to `await ...generate_assessment(...)`
SubmitFollowupBegin ==
    /\ nops < MaxOps
    /\ Len(pending) < MaxPending
    /\ \E sid \in SessionIds, i \in 1..Len(ResponseInputs) :
         /\ Exists(sid)
         /\ sessions[sid].is_followup
         /\ sessions[sid].parent_session_id # NoParent
         /\ Exists(sessions[sid].parent_session_id)
         /\ LET parent == sessions[sessions[sid].parent_session_id]
                combined == Merge(parent.responses, ResponseInputs[i])
            IN  /\ sessions' = [sessions EXCEPT ![sid].responses = combined]
                /\ pending' = Append(pending,
                      [op |-> "submit_followup_responses", sid |-> sid,
                       submitted |-> ResponseInputs[i],
                       questionnaire_responses |-> combined])
                /\ last_call' = Call("submit_followup_responses", sid, "awaiting", FALSE)
    /\ nops' = nops + 1
    /\ UNCHANGED <<run_vars, pure_vars, thread_vars, store_vars>>

\* a str the program builds itself (a fixed message, or a message around an
\* exception text)
Literal(msg) == [k |-> "literal", v |-> msg]

IsStr(v) == v.k \in {"text", "literal"}

\* what the report service may do during one answer_stakeholder_query call
AnswerRuns ==
    <<RunRaised, RunReturned(None), RunReturned(Str(<<>>)), RunReturned(Str(<<SegProse>>))>>

\* an agent that lets the errors of the service escape
answer_stakeholder_query_unguarded(run) ==
    IF run.k = "raise" THEN Raise("Exception")
    ELSE IF ~Truthy(run.v) THEN Raise("Exception")
    ELSE Ok(run.v)

\* ReporterValidatorAgent.answer_stakeholder_query, given what the try block
\* observes of the service
answer_stakeholder_query(run) ==
    IF run.k = "raise" THEN Ok(Literal("Error processing query"))
    ELSE IF ~Truthy(run.v) THEN Ok(Literal("I apologize, but I couldn't generate a response"))
    ELSE Ok(run.v)

\* what a completed query leaves in last_call: the call and the value returned
QueryCall(op, sid, res, outage) == Call(op, sid, res.exc, outage) @@ [ret |-> res.v]

\* answer_query(session_id, question) on a session of the store
AnswerQuery ==
    /\ nops < MaxOps
    /\ \E sid \in SessionIds, r \in 1..Len(AnswerRuns) :
         /\ Exists(sid)
         /\ IF sessions[sid].ecdd_assessment = None
            THEN last_call' = QueryCall("answer_query", sid,
                                 Ok(Literal("Assessment has not been generated yet")), FALSE)
            ELSE last_call' = QueryCall("answer_query", sid,
                                 answer_stakeholder_query(AnswerRuns[r]),
                                 Outage(AnswerRuns[r]) \/ ~Truthy(AnswerRuns[r].v))
    /\ nops' = nops + 1
    /\ UNCHANGED <<sessions, pending>>
    /\ UNCHANGED <<run_vars, pure_vars, thread_vars, store_vars>>

\* the order of the fields of ComplianceFlags, which model_dump() keeps
FlagOrder ==
    <<"pep", "sanctions", "adverse_media", "high_risk_jurisdiction", "watchlist_hit",
      "source_of_wealth_concerns", "source_of_funds_concerns", "complex_ownership">>

\* a comparison that lists as resolved every flag that is off now
ResolvedConcernsAllOff(curr_flags, prev_flags) ==
    SelectSeq(FlagOrder, LAMBDA flag : ~curr_flags[flag])

\* a comparison that lists as new every flag that is on now
NewConcernsAllOn(curr_flags, prev_flags) ==
    SelectSeq(FlagOrder, LAMBDA flag : curr_flags[flag])

\* `if value and not prev_flags.get(flag)` over curr_flags.items()
NewConcerns(curr_flags, prev_flags) ==
    SelectSeq(FlagOrder, LAMBDA flag : curr_flags[flag] /\ ~prev_flags[flag])

\* `elif not value and prev_flags.get(flag)` over curr_flags.items()
ResolvedConcerns(curr_flags, prev_flags) ==
    SelectSeq(FlagOrder, LAMBDA flag : ~curr_flags[flag] /\ prev_flags[flag])

\* compare_assessments, given self._sessions.get(...) of the two ids (None for
\* an id the store does not hold)
compare_assessments(current, previous) ==
    IF current = None \/ previous = None THEN Raise("ValueError")
    ELSE IF current.ecdd_assessment = None \/ previous.ecdd_assessment = None
    THEN Raise("ValueError")
    ELSE LET c == current.ecdd_assessment
             p == previous.ecdd_assessment
         IN  Ok([customer_id |-> current.customer_id,
                 current_session |-> current.session_id,
                 previous_session |-> previous.session_id,
                 changed |-> p.overall_risk_rating # c.overall_risk_rating,
                 delta |-> c.risk_score - p.risk_score,
                 new_concerns |-> NewConcerns(c.compliance_flags, p.compliance_flags),
                 resolved_concerns |->
                     ResolvedConcerns(c.compliance_flags, p.compliance_flags)])

\* self._sessions.get(session_id)
SessionsGet(sid) == IF Exists(sid) THEN sessions[sid] ELSE None

\* compare_assessments(current_session_id, previous_session_id)
CompareAssessments ==
    /\ nops < MaxOps
    /\ \E cur, prev \in SessionIds \cup {UnknownId} :
         /\ cur <= Len(sessions) + 1 /\ prev <= Len(sessions) + 1
         /\ ~Exists(UnknownId)
         /\ last_call' = QueryCall("compare_assessments", cur,
                             compare_assessments(SessionsGet(cur), SessionsGet(prev)), FALSE)
    /\ nops' = nops + 1
    /\ UNCHANGED <<sessions, pending>>
    /\ UNCHANGED <<run_vars, pure_vars, thread_vars, store_vars>>

\* get_ecdd_output(session_id) on a session of the store
GetEcddOutput ==
    /\ nops < MaxOps
    /\ \E sid \in SessionIds :
         /\ Exists(sid)
         /\ LET session == sessions[sid]
            IN  IF session.ecdd_assessment = None \/ session.document_checklist = None
                THEN /\ last_call' = QueryCall("get_ecdd_output", sid, Raise("ValueError"), FALSE)
                     /\ sessions' = sessions
                ELSE /\ last_call' = QueryCall("get_ecdd_output", sid,
                           Ok([k |-> "output", session_id |-> sid,
                               customer_id |-> session.customer_id,
                               compliance_flags |-> session.ecdd_assessment.compliance_flags,
                               ecdd_assessment |-> session.ecdd_assessment,
                               document_checklist |-> session.document_checklist,
                               questionnaire_responses |-> session.responses,
                               status |-> session.status,
                               review_decision |-> session.review_decision]), FALSE)
                     /\ sessions' = sessions
    /\ nops' = nops + 1
    /\ UNCHANGED pending
    /\ UNCHANGED <<run_vars, pure_vars, thread_vars, store_vars>>

CoordNext ==
    \/ SessionNotFound
    \/ CreateSession
    \/ SubmitResponsesBegin
    \/ AssessmentReturns
    \/ CompleteReview
    \/ GenerateFollowup
    \/ GenerateFollowupAndContinue
    \/ SubmitFollowupRejected
    \/ SubmitFollowupBegin
    \/ AnswerQuery
    \/ CompareAssessments
    \/ GetEcddOutput

\* no agent call is being traced step by step
RunIdle ==
    /\ caller = "none"
    /\ profile = Profiles[1]
    /\ pc = "idle"
    /\ run_status = "none"
    /\ poll_delay = PollDelayInitial
    /\ total_wait = 0
    /\ sleeps = <<>>
    /\ polls = 0
    /\ submits = 0
    /\ observed = 0
    /\ cause = "none"
    /\ output = None
    /\ run_out = None
    /\ result = None

\* no pure function is being applied
PureIdle ==
    /\ fcall = [fn |-> "none"]
    /\ fret = None

\* no call of the report agent is being traced
ThreadsIdle ==
    /\ threads = [sid \in {} |-> 0]
    /\ tcalls = <<>>
    /\ created = <<>>
    /\ sent = <<>>

\* a session manager that was constructed and never called
StoreIdle ==
    /\ sm_sessions = [sid \in {} |-> 0]
    /\ write_buffer = {}
    /\ disk = [sid \in {} |-> 0]
    /\ sm_call = [op |-> "none"]
    /\ sm_ops = 0

Init == CoordInit /\ RunIdle /\ PureIdle /\ ThreadsIdle /\ StoreIdle

Next == CoordNext

Spec == Init /\ [][Next]_vars

\* one agent call traced step by step, the coordinator being idle
InitRun == RunInit /\ CoordInit /\ PureIdle /\ ThreadsIdle /\ StoreIdle

NextRun == RunNext

SpecRun == InitRun /\ [][NextRun]_vars


(***************************************************************************)
(* Properties of the coordinator (checked under Spec)                      *)
(***************************************************************************)
\* the edges of the session lifecycle (every state may also move to "error")
LifecycleEdges ==
    {<<"pending", "questionnaire_generated">>,
     <<"questionnaire_generated", "responses_submitted">>,
     <<"responses_submitted", "reports_generated">>,
     <<"reports_generated", "pending_review">>}
    \cup ({"reports_generated", "pending_review"} \X {"approved", "escalated", "rejected"})
    \cup (Statuses \X {"error"})

TerminalStatuses == {"approved", "escalated", "rejected", "error"}

\* C1 (as claimed): every change of a session's status follows an edge of the
\* lifecycle.
C1_StatusFollowsEdges ==
    [][\A sid \in 1..Len(sessions) :
          sessions'[sid].status # sessions[sid].status
             => <<sessions[sid].status, sessions'[sid].status>> \in LifecycleEdges]_vars

\* C2 (as claimed): terminal states are absorbing: a session whose status is
\* approved, escalated, rejected or error is never left in a non-terminal
\* status by a later operation.
C2_TerminalAbsorbing ==
    [][\A sid \in 1..Len(sessions) :
          sessions[sid].status \in TerminalStatuses
             => sessions'[sid].status \in TerminalStatuses]_vars

\* C4: when the service fails or times out, create_session does not raise and
\* leaves the new session in questionnaire_generated with a questionnaire,
\* and submit_responses does not raise and leaves the session in
\* reports_generated with an assessment and a checklist.
C4_OutageAbsorbed ==
    /\ (last_call.op = "create_session" /\ last_call.outage)
          => /\ last_call.exc = "none"
             /\ sessions[last_call.sid].status = "questionnaire_generated"
             /\ sessions[last_call.sid].questionnaire.k = "questionnaire"
             /\ Len(sessions[last_call.sid].questionnaire.sections) > 0
    /\ (last_call.op = "submit_responses" /\ last_call.outage)
          => /\ last_call.exc = "none"
             /\ sessions[last_call.sid].status = "reports_generated"
             /\ sessions[last_call.sid].ecdd_assessment.k = "assessment"
             /\ sessions[last_call.sid].document_checklist.k = "checklist"

C4_Witness ==
    /\ last_call = Call("submit_responses", 1, "none", TRUE)
    /\ sessions[1].questionnaire.profile_summary = "fallback"
    /\ sessions[1].ecdd_assessment.report_text = "fallback"
    /\ sessions[1].status = "reports_generated"

\* parent, overridden by child on every field child answers
UnionChildWins(parent, child, combined) ==
    \A f \in Fields :
       combined[f] = IF child[f] # NoAnswer THEN child[f] ELSE parent[f]

\* C10: submit_followup_responses stores as the child's responses the union of
\* the parent's responses and the submitted ones, the child's value winning
\* on a common key ({a:1,b:2} and {b:3,c:4} give {a:1,b:3,c:4}), passes that
\* map to generate_assessment, and leaves the parent session unchanged, both
\* when it suspends and when it completes.
C10_FollowupMerge ==
    [][(last_call'.op = "submit_followup_responses" /\ last_call'.exc # "ValueError")
         => LET sid == last_call'.sid
                par == sessions[sid].parent_session_id
            IN  /\ sessions'[par] = sessions[par]
                /\ last_call'.exc = "awaiting" =>
                     LET c == pending'[Len(pending')]
                     IN  /\ c.sid = sid
                         /\ UnionChildWins(sessions[par].responses, c.submitted,
                                           sessions'[sid].responses)
                         /\ c.questionnaire_responses = sessions'[sid].responses
                         /\ (sessions[par].responses = Responses(1, 2, NoAnswer)
                             /\ c.submitted = Responses(NoAnswer, 3, 4))
                               => sessions'[sid].responses = Responses(1, 3, 4)
                /\ last_call'.exc = "none" =>
                     /\ sessions'[sid].responses = sessions[sid].responses
                     /\ \E n \in 1..Len(pending) :
                           /\ pending[n].sid = sid
                           /\ pending[n].op = "submit_followup_responses"
                           /\ sessions'[sid].assessed_with = pending[n].questionnaire_responses
       ]_vars

C10_Witness ==
    /\ Len(sessions) >= 2
    /\ sessions[2].parent_session_id = 1
    /\ sessions[1].responses = Responses(1, 2, NoAnswer)
    /\ sessions[2].responses = Responses(1, 3, 4)
    /\ sessions[2].assessed_with = Responses(1, 3, 4)
    /\ last_call = Call("submit_followup_responses", 2, "none", FALSE)

\* the session has no usable parent linkage (agents.py 357-362)
NotAFollowup(s) ==
    \/ ~s.is_followup
    \/ s.parent_session_id = NoParent
    \/ ~Exists(s.parent_session_id)

\* C11: submit_followup_responses on a stored session that is not a follow-up
\* (is_followup false, no parent_session_id, or a parent that is not in the
\* store) raises ValueError and changes nothing: every session record (the
\* session's own and its parent's) is as before the call, and no call of the
\* report service is started.
C11_NotAFollowupRejected ==
    [][(/\ nops' = nops + 1
        /\ last_call'.op = "submit_followup_responses"
        /\ Exists(last_call'.sid)
        /\ NotAFollowup(sessions[last_call'.sid]))
          => /\ last_call'.exc = "ValueError"
             /\ sessions' = sessions
             /\ pending' = pending]_vars

C11_Witness ==
    /\ last_call.op = "submit_followup_responses"
    /\ last_call.exc = "ValueError"
    /\ Exists(last_call.sid)
    /\ ~sessions[last_call.sid].is_followup
    /\ sessions[last_call.sid].status = "reports_generated"

\* C12: generate_followup_and_continue on a stored parent registers exactly
\* one new session, under an id the store did not hold, with is_followup true,
\* parent_session_id the id passed to the call, status questionnaire_generated,
\* the parent's customer (id and name are copied together) and profile, and the
\* follow-up questionnaire attached; every session already stored, the parent
\* with its status and responses included, is unchanged.
C12_FollowupRegistersChild ==
    [][(/\ nops' = nops + 1
        /\ last_call'.op = "generate_followup_and_continue"
        /\ last_call'.exc = "none")
          => LET new == last_call'.sid
                 parent == last_call'.parent
             IN  /\ Exists(parent)
                 /\ ~Exists(new)
                 /\ Len(sessions') = Len(sessions) + 1
                 /\ SubSeq(sessions', 1, Len(sessions)) = sessions
                 /\ new = Len(sessions')
                 /\ sessions'[new].session_id = new
                 /\ sessions'[new].is_followup
                 /\ sessions'[new].parent_session_id = parent
                 /\ sessions'[new].status = "questionnaire_generated"
                 /\ sessions'[new].customer_id = sessions[parent].customer_id
                 /\ sessions'[new].client_profile = sessions[parent].client_profile
                 /\ sessions'[new].questionnaire.k = "questionnaire"
                 /\ Head(sessions'[new].questionnaire.questionnaire_id) = "followup-"
                 /\ sessions'[new].questionnaire.customer_id = sessions[parent].customer_id]_vars

C12_Witness ==
    /\ last_call.op = "generate_followup_and_continue"
    /\ last_call.exc = "none"
    /\ last_call.parent = 2
    /\ Len(sessions) = 3
    /\ sessions[3].parent_session_id = 2
    /\ sessions[2].status = "reports_generated"
    /\ sessions[1].customer_id # sessions[2].customer_id

\* C13: in every reachable state of the coordinator's store, a session with
\* is_followup true has a parent_session_id that is set and is the id of a
\* session in the store (the coordinator never removes a session; the session
\* manager's delete_session acts on its own store, which create_session fills
\* with is_followup false only).
C13_FollowupHasParent ==
    \A sid \in 1..Len(sessions) :
        sessions[sid].is_followup
            => /\ sessions[sid].parent_session_id # NoParent
               /\ Exists(sessions[sid].parent_session_id)

C13_Witness ==
    /\ Len(sessions) = 3
    /\ sessions[2].is_followup /\ sessions[2].parent_session_id = 1
    /\ sessions[3].is_followup /\ sessions[3].parent_session_id = 2
    /\ last_call.op = "generate_followup"

(***************************************************************************)
(* Pure functions of the program applied to enumerated arguments           *)
(* (checked under SpecPure)                                                *)
(***************************************************************************)
\* client_profile.pep_status as a list of is_pep values
PepLists == << <<>>, <<FALSE>>, <<TRUE>>, <<FALSE, TRUE>> >>

\* the profiles generate_assessment is applied to: every PepLists entry, with
\* and without sanctions hits (two of them), with and without adverse news
AssessProfiles ==
    [i \in 1..16 |->
        ClientProfile("c1", PepLists[((i - 1) % 4) + 1],
                      IF ((i - 1) \div 4) % 2 = 1 THEN 2 ELSE 0,
                      IF (i - 1) \div 8 = 1 THEN 1 ELSE 0)]

\* the flags an assessment of the service may assert
RemoteFlagSets == SUBSET {"pep", "sanctions", "adverse_media", "complex_ownership"}

\* the outcome of the service call that a generate_assessment call observes
RunOf(c) ==
    CASE c.src = "raise" -> RunRaised
      [] c.src = "empty" -> RunReturned(None)
      [] c.src = "flags" ->
            RunReturned(Str(<<SegProse, SegFence("json"),
                              SegJson(JAssessment("low", c.flags)), SegFence("")>>))
      [] c.src = "text" -> RunReturned(AssessmentTexts[c.t])

AssessmentCalls ==
    \/ \E p \in DOMAIN AssessProfiles, S \in RemoteFlagSets :
          fcall = [fn |-> "generate_assessment", p |-> p, src |-> "flags", flags |-> S]
    \/ \E p \in DOMAIN AssessProfiles, t \in DOMAIN AssessmentTexts :
          fcall = [fn |-> "generate_assessment", p |-> p, src |-> "text", t |-> t]
    \/ \E p \in DOMAIN AssessProfiles, k \in {"raise", "empty"} :
          fcall = [fn |-> "generate_assessment", p |-> p, src |-> k]

\* generate_assessment(client_profile, ...) with the service behaving as RunOf
ApplyGenerateAssessment ==
    /\ fcall.fn = "generate_assessment"
    /\ fret = None
    /\ fret' = generate_assessment(AssessProfiles[fcall.p], RunOf(fcall))
    /\ UNCHANGED <<fcall, coord_vars, run_vars, thread_vars, store_vars>>

\* the flags of the assessment as parsed from the response, before the
\* back-fill from the profile
ParsedFlags(response) ==
    ApplyJsonBlocks(ECDDAssessment("", "medium", 0, <<>>, ComplianceFlags({}), "response"),
                    JsonBlocks(response.segs)).v.compliance_flags

AssessmentReturned == fcall.fn = "generate_assessment" /\ fret # None
AssessmentParsed == AssessmentReturned /\ fcall.src \in {"flags", "text"}

\* C14: when the profile records a PEP hit and the assessment parsed from the
\* response asserts every compliance flag false, the assessment returned by
\* generate_assessment has compliance_flags.pep = true.
C14_PepBackfilled ==
    (/\ AssessmentParsed
     /\ HasPep(AssessProfiles[fcall.p])
     /\ \A f \in FlagNames : ~ParsedFlags(RunOf(fcall).v)[f])
        => fret.v[1].compliance_flags["pep"]

C14_Witness ==
    /\ AssessmentParsed
    /\ fcall.src = "flags" /\ fcall.flags = {}
    /\ AssessProfiles[fcall.p].pep_status = <<FALSE, TRUE>>
    /\ fret.v[1].compliance_flags["pep"]
    /\ fret.v[1].overall_risk_rating = "low"

AssessmentFellBack == AssessmentReturned /\ fcall.src \in {"raise", "empty"}

\* C15: whenever the profile records a PEP hit, the assessment returned by
\* generate_assessment has compliance_flags.pep = true, whatever flags the
\* service returned and whichever path (parsed or fallback) produced it.
C15_PepAlwaysForced ==
    (AssessmentReturned /\ HasPep(AssessProfiles[fcall.p]))
        => fret.v[1].compliance_flags["pep"]

\* the triggering conditions of the profile of the call
CallPep == HasPep(AssessProfiles[fcall.p])
CallSanctions == AssessProfiles[fcall.p].sanctions > 0
CallAdverse == AssessProfiles[fcall.p].adverse_news > 0

\* the factor names of the returned assessment, in order
FactorNames == [i \in 1..Len(fret.v[1].risk_factors) |-> fret.v[1].risk_factors[i].factor_name]

\* C16 (as stated): the fallback rating is medium by default, high on a PEP
\* hit, critical on a sanctions hit, and the factor list holds exactly one
\* factor per triggering condition (PEP, sanctions) that holds and no other.
C16_FallbackRatingPepSanctions ==
    AssessmentFellBack =>
        /\ fret.v[1].overall_risk_rating =
              (IF CallSanctions THEN "critical" ELSE IF CallPep THEN "high" ELSE "medium")
        /\ FactorNames = (IF CallPep THEN <<"PEP Status">> ELSE <<>>)
                         \o (IF CallSanctions THEN <<"Sanctions Screening">> ELSE <<>>)

\* C16 (amended): the fallback rating is critical on a sanctions hit, else
\* high on a PEP hit or on adverse news, else medium; the factor list holds
\* exactly one factor per triggering condition (PEP, sanctions, adverse news)
\* that holds, in that order, and no other.
C16_FallbackRatingWithAdverse ==
    AssessmentFellBack =>
        /\ fret.v[1].overall_risk_rating =
              (IF CallSanctions THEN "critical"
               ELSE IF CallPep \/ CallAdverse THEN "high" ELSE "medium")
        /\ FactorNames = (IF CallPep THEN <<"PEP Status">> ELSE <<>>)
                         \o (IF CallSanctions THEN <<"Sanctions Screening">> ELSE <<>>)
                         \o (IF CallAdverse THEN <<"Adverse Media">> ELSE <<>>)

C16_Witness ==
    /\ AssessmentFellBack
    /\ CallAdverse /\ ~CallPep /\ ~CallSanctions
    /\ fret.v[1].overall_risk_rating = "high"
    /\ FactorNames = <<"Adverse Media">>

\* the documents of the returned checklist, all five lists in order
ChecklistDocuments ==
    fret.v[2].identity_documents \o fret.v[2].source_of_wealth_documents
    \o fret.v[2].source_of_funds_documents \o fret.v[2].compliance_documents
    \o fret.v[2].additional_documents

AllRequired ==
    \A i \in 1..Len(ChecklistDocuments) : ChecklistDocuments[i].priority = "required"

\* C17 (as stated): the fallback checklist has exactly one identity document,
\* one source-of-wealth document and one source-of-funds document, all of
\* priority required, and no compliance or additional documents.
C17_FallbackChecklistOneEach ==
    AssessmentFellBack =>
        /\ Len(fret.v[2].identity_documents) = 1
        /\ Len(fret.v[2].source_of_wealth_documents) = 1
        /\ Len(fret.v[2].source_of_funds_documents) = 1
        /\ fret.v[2].compliance_documents = <<>>
        /\ fret.v[2].additional_documents = <<>>
        /\ AllRequired

\* C17 (amended): the fallback checklist has exactly two identity documents
\* (photo ID and proof of address), one source-of-wealth document and one
\* source-of-funds document, all of priority required, and no compliance or
\* additional documents.
C17_FallbackChecklistTwoIdentity ==
    AssessmentFellBack =>
        /\ Len(fret.v[2].identity_documents) = 2
        /\ fret.v[2].identity_documents[1].document_name # fret.v[2].identity_documents[2].document_name
        /\ Len(fret.v[2].source_of_wealth_documents) = 1
        /\ Len(fret.v[2].source_of_funds_documents) = 1
        /\ fret.v[2].compliance_documents = <<>>
        /\ fret.v[2].additional_documents = <<>>
        /\ AllRequired

C17_Witness ==
    /\ AssessmentFellBack
    /\ fcall.src = "raise"
    /\ Len(ChecklistDocuments) = 4
    /\ fret.v[2].identity_documents[2].document_name = "Proof of address"

\* the service's response text of a call that was parsed
ResponseSegs == RunOf(fcall).v.segs

\* what the "```documents" step recovers from the response when run on its own
ChecklistAlone ==
    ExtractChecklist(DocumentChecklist(<<>>, <<>>, <<>>, <<>>, <<>>, "response"),
                     ResponseSegs)

\* C18: the assessment and the checklist are recovered from one response
\* independently: whatever the assessment object is (absent, malformed, or
\* carrying an invalid field value), a well-formed checklist object of the
\* same response is recovered; the assessment step runs first and never
\* depends on the checklist.
C18_ChecklistIndependent ==
    AssessmentParsed => fret.v[2] = ChecklistAlone

\* the first ```json block of the response, loaded
FirstBlock == JsonLoads(Head(JsonBlocks(ResponseSegs)))

\* the first ```json block is a well-formed assessment-shaped object
FirstBlockIsAssessment ==
    /\ JsonBlocks(ResponseSegs) # <<>>
    /\ FirstBlock.exc = "none"
    /\ LooksLikeAssessment(FirstBlock.data).exc = "none"
    /\ LooksLikeAssessment(FirstBlock.data).v

\* the assessment built from the first ```json block only
FirstOnly ==
    ApplyAssessmentData(
        ECDDAssessment("", "medium", 0, <<>>, ComplianceFlags({}), "response"),
        FirstBlock.data)

\* C19: when a response holds several assessment-shaped objects the first one
\* determines the result and the later ones are ignored: rating, factor list
\* and flags of the returned assessment come from the first object only.
C19_FirstAssessmentWins ==
    (AssessmentParsed /\ FirstBlockIsAssessment /\ FirstOnly.exc = "none") =>
        /\ fret.v[1].overall_risk_rating = FirstOnly.v.overall_risk_rating
        /\ fret.v[1].risk_factors = FirstOnly.v.risk_factors
        /\ fret.v[1].compliance_flags =
              BackfillFlags(FirstOnly.v.compliance_flags, AssessProfiles[fcall.p])

(***************************************************************************)
(* The JSON extraction scan (updated_app.py, test_app.py)                  *)
(*                                                                         *)
(* A raw text is a sequence of lexemes. Only the lexeme "{" holds the      *)
(* character '{', so stepping over the characters of any other lexeme is   *)
(* one step of the scan. "a:1" is the member `"a": 1`, "k:" is the key     *)
(* `"k":` whose value follows, "x" is prose, "fence" is a fence line.          *)
(***************************************************************************)
MaxRawLen == 5

Lexemes == {"{", "}", ",", "a:1", "k:", "x", "fence"}

RawTexts == UNION {[1..n -> Lexemes] : n \in 0..MaxRawLen}

\* a dict over the keys "a" and "k"; None marks a key that is absent
EmptyDict == [a |-> None, k |-> None]

Decoded(obj, end) == [ok |-> TRUE, obj |-> obj, end |-> end]
DecodeError == [ok |-> FALSE, obj |-> None, end |-> 0]

\* json.JSONDecoder().raw_decode(raw, i) for raw[i] = '{': the object that
\* starts at i and the index after it, or JSONDecodeError
RECURSIVE JSONObject(_, _), JSONMembers(_, _, _), JSONAfterMember(_, _, _)
JSONObject(raw, i) ==
    IF i + 1 > Len(raw) THEN DecodeError
    ELSE IF raw[i + 1] = "}" THEN Decoded(EmptyDict, i + 2)
    ELSE JSONMembers(raw, i + 1, EmptyDict)

\* a key and its value are expected at j
JSONMembers(raw, j, d) ==
    IF j > Len(raw) THEN DecodeError
    ELSE IF raw[j] = "a:1" THEN JSONAfterMember(raw, j + 1, [d EXCEPT !.a = JNum(1)])
    ELSE IF raw[j] = "k:" /\ j + 1 <= Len(raw) /\ raw[j + 1] = "{"
    THEN LET inner == JSONObject(raw, j + 1)
         IN  IF ~inner.ok THEN DecodeError
             ELSE JSONAfterMember(raw, inner.end, [d EXCEPT !.k = inner.obj])
    ELSE DecodeError

\* ',' or '}' is expected at j
JSONAfterMember(raw, j, d) ==
    IF j > Len(raw) THEN DecodeError
    ELSE IF raw[j] = "}" THEN Decoded(d, j + 1)
    ELSE IF raw[j] = "," THEN JSONMembers(raw, j + 1, d)
    ELSE DecodeError

raw_decode(raw, i) == JSONObject(raw, i)

\* a scan that gives up at the first '{' that does not start an object
RECURSIVE ScanStopAtError(_, _, _)
ScanStopAtError(raw, i, found_objects) ==
    IF i > Len(raw) THEN found_objects
    ELSE IF raw[i] # "{" THEN ScanStopAtError(raw, i + 1, found_objects)
    ELSE LET r == raw_decode(raw, i)
         IN  IF r.ok
             THEN ScanStopAtError(raw, r.end,
                     Append(found_objects, [obj |-> r.obj, start |-> i, end |-> r.end]))
             ELSE found_objects

\* `while i < len(raw)`: found_objects at the end of the loop entered with i
\* and found_objects
RECURSIVE Scan(_, _, _)
Scan(raw, i, found_objects) ==
    IF i > Len(raw) THEN found_objects
    ELSE IF raw[i] # "{" THEN Scan(raw, i + 1, found_objects)
    ELSE LET r == raw_decode(raw, i)
         IN  IF r.ok
             THEN Scan(raw, r.end,
                       Append(found_objects, [obj |-> r.obj, start |-> i, end |-> r.end]))
             ELSE Scan(raw, i + 1, found_objects)

\* raw.strip().replace("```json", "").replace("```", "")
StripFences(raw) == SelectSeq(raw, LAMBDA c : c # "fence")

\* `for i, ch in enumerate(raw)`: the first object that parses, else ValueError
RECURSIVE FirstJson(_, _)
FirstJson(raw, i) ==
    IF i > Len(raw) THEN Raise("ValueError")
    ELSE IF raw[i] # "{" THEN FirstJson(raw, i + 1)
    ELSE LET r == raw_decode(raw, i)
         IN  IF r.ok THEN Ok(r.obj) ELSE FirstJson(raw, i + 1)

safe_json_from_llm(raw) == FirstJson(StripFences(raw), 1)

ScanCalls ==
    \E raw \in RawTexts, fn \in {"scan", "safe_json_from_llm"} :
        fcall = [fn |-> fn, raw |-> raw]

\* the scan loop of generate_ecdd_assessment applied to raw
ApplyScan ==
    /\ fcall.fn = "scan"
    /\ fret = None
    /\ fret' = Ok(Scan(fcall.raw, 1, <<>>))
    /\ UNCHANGED <<fcall, coord_vars, run_vars, thread_vars, store_vars>>

ApplySafeJson ==
    /\ fcall.fn = "safe_json_from_llm"
    /\ fret = None
    /\ fret' = safe_json_from_llm(fcall.raw)
    /\ UNCHANGED <<fcall, coord_vars, run_vars, thread_vars, store_vars>>

\* texts of one object, each with the dict it denotes:
\* {}   {"a": 1}   {"k": {}}   {"a": 1, "a": 1}
ObjectTexts ==
    << [text |-> <<"{", "}">>, obj |-> EmptyDict],
       [text |-> <<"{", "a:1", "}">>, obj |-> [a |-> JNum(1), k |-> None]],
       [text |-> <<"{", "k:", "{", "}", "}">>, obj |-> [a |-> None, k |-> EmptyDict]],
       [text |-> <<"{", "a:1", ",", "a:1", "}">>, obj |-> [a |-> JNum(1), k |-> None]] >>

ScanReturned == fcall.fn = "scan" /\ fret # None

\* the objects of found_objects, in order
FoundObjects == [i \in 1..Len(fret.v) |-> fret.v[i].obj]

\* C20: the scan returns the objects of a text in order of appearance: a
\* single fenced object yields exactly that object (from safe_json_from_llm
\* too), a text without '{' yields the empty list, two adjacent objects yield
\* both in order, and a '{' that does not start an object is skipped without
\* ending the scan.
C20_ScanInOrder ==
    /\ ScanReturned =>
        /\ \A o \in DOMAIN ObjectTexts :
              fcall.raw = <<"fence">> \o ObjectTexts[o].text \o <<"fence">>
                 => FoundObjects = <<ObjectTexts[o].obj>>
        /\ (\A i \in DOMAIN fcall.raw : fcall.raw[i] # "{") => fret.v = <<>>
        /\ \A o1, o2 \in DOMAIN ObjectTexts :
              fcall.raw = ObjectTexts[o1].text \o ObjectTexts[o2].text
                 => FoundObjects = <<ObjectTexts[o1].obj, ObjectTexts[o2].obj>>
        /\ \A o \in DOMAIN ObjectTexts, junk \in {<<>>, <<"x">>, <<",">>, <<"fence">>} :
              fcall.raw = <<"{">> \o junk \o ObjectTexts[o].text
                 => FoundObjects = <<ObjectTexts[o].obj>>
        /\ \A i \in DOMAIN fret.v :
              /\ raw_decode(fcall.raw, fret.v[i].start) = Decoded(fret.v[i].obj, fret.v[i].end)
              /\ i > 1 => fret.v[i - 1].end <= fret.v[i].start
    /\ (fcall.fn = "safe_json_from_llm" /\ fret # None) =>
          \A o \in DOMAIN ObjectTexts :
              fcall.raw = <<"fence">> \o ObjectTexts[o].text \o <<"fence">>
                 => fret = Ok(ObjectTexts[o].obj)

\* "{", prose, then {"a": 1}: the first '{' is skipped and the object found
C20_Witness ==
    /\ ScanReturned
    /\ fcall.raw = <<"{", "x", "{", "a:1", "}">>
    /\ FoundObjects = <<[a |-> JNum(1), k |-> None]>>
    /\ fret.v[1].start = 3

\* C21: extraction never raises when no matching object is found: the
\* extractors (safe_json_from_llm, the scan, the parser of generate_assessment)
\* report absence by an empty or default result, never by an exception.
C21_ExtractionNeverRaises ==
    (fret # None /\ fcall.fn \in {"safe_json_from_llm", "scan", "generate_assessment"})
        => fret.exc = "none"

(***************************************************************************)
(* compare_assessments applied to pairs of assessed sessions               *)
(***************************************************************************)
\* the assessments compared: two ratings, two scores, and the flags pep,
\* sanctions and complex_ownership on or off
ComparedAssessments ==
    [i \in 1..32 |->
        ECDDAssessment("Corporate",
                       IF (i - 1) % 2 = 0 THEN "medium" ELSE "high",
                       IF ((i - 1) \div 2) % 2 = 0 THEN 50 ELSE 70,
                       <<>>,
                       ComplianceFlags(
                          (IF ((i - 1) \div 4) % 2 = 1 THEN {"pep"} ELSE {})
                          \cup (IF ((i - 1) \div 8) % 2 = 1 THEN {"sanctions"} ELSE {})
                          \cup (IF ((i - 1) \div 16) % 2 = 1 THEN {"complex_ownership"} ELSE {})),
                       "response")]

\* a session of the store that holds assessment a
AssessedSession(sid, a) ==
    [QuestionnaireSession(sid, Profiles[1], "reports_generated", None, FALSE, NoParent)
        EXCEPT !.ecdd_assessment = a]

CompareCalls ==
    \E cur, prev \in DOMAIN ComparedAssessments :
        fcall = [fn |-> "compare_assessments", cur |-> cur, prev |-> prev]

ApplyCompareAssessments ==
    /\ fcall.fn = "compare_assessments"
    /\ fret = None
    /\ fret' = compare_assessments(AssessedSession(1, ComparedAssessments[fcall.cur]),
                                   AssessedSession(2, ComparedAssessments[fcall.prev]))
    /\ UNCHANGED <<fcall, coord_vars, run_vars, thread_vars, store_vars>>

Compared == fcall.fn = "compare_assessments" /\ fret # None
CurrentAssessment == ComparedAssessments[fcall.cur]
PreviousAssessment == ComparedAssessments[fcall.prev]

\* the elements of a list, which holds none of them twice
Elements(list) == {list[i] : i \in 1..Len(list)}
NoDuplicates(list) == Cardinality(Elements(list)) = Len(list)

\* C24: compare_assessments(current, previous) reports changed exactly when
\* the two ratings differ, delta = current score - previous score,
\* new_concerns = exactly the flags false in previous and true in current,
\* resolved_concerns = exactly the flags true in previous and false in
\* current; previous medium without flags and current high with pep give
\* changed, new_concerns = [pep], resolved_concerns = [].
C24_CompareReportsChanges ==
    Compared =>
        /\ fret.exc = "none"
        /\ fret.v.changed <=>
              CurrentAssessment.overall_risk_rating # PreviousAssessment.overall_risk_rating
        /\ fret.v.delta = CurrentAssessment.risk_score - PreviousAssessment.risk_score
        /\ NoDuplicates(fret.v.new_concerns) /\ NoDuplicates(fret.v.resolved_concerns)
        /\ Elements(fret.v.new_concerns) =
              {f \in FlagNames : ~PreviousAssessment.compliance_flags[f]
                                   /\ CurrentAssessment.compliance_flags[f]}
        /\ Elements(fret.v.resolved_concerns) =
              {f \in FlagNames : PreviousAssessment.compliance_flags[f]
                                   /\ ~CurrentAssessment.compliance_flags[f]}
        /\ (/\ PreviousAssessment.overall_risk_rating = "medium"
            /\ PreviousAssessment.compliance_flags = ComplianceFlags({})
            /\ CurrentAssessment.overall_risk_rating = "high"
            /\ CurrentAssessment.compliance_flags = ComplianceFlags({"pep"}))
              => /\ fret.v.changed
                 /\ fret.v.new_concerns = <<"pep">>
                 /\ fret.v.resolved_concerns = <<>>

C24_Witness ==
    /\ Compared
    /\ PreviousAssessment.overall_risk_rating = "medium"
    /\ PreviousAssessment.compliance_flags = ComplianceFlags({"sanctions"})
    /\ CurrentAssessment.overall_risk_rating = "high"
    /\ CurrentAssessment.compliance_flags = ComplianceFlags({"pep", "complex_ownership"})
    /\ fret.v.new_concerns = <<"pep", "complex_ownership">>
    /\ fret.v.resolved_concerns = <<"sanctions">>

\* the same two sessions compared the other way round
Swapped ==
    compare_assessments(AssessedSession(2, PreviousAssessment),
                        AssessedSession(1, CurrentAssessment)).v

\* C25: compare_assessments is symmetric under swap: the new_concerns of
\* compare(A, B) are the resolved_concerns of compare(B, A), and the two score
\* deltas are negations of each other.
C25_CompareSymmetric ==
    Compared =>
        /\ fret.v.new_concerns = Swapped.resolved_concerns
        /\ fret.v.resolved_concerns = Swapped.new_concerns
        /\ fret.v.delta = 0 - Swapped.delta

C25_Witness ==
    /\ Compared
    /\ fret.v.new_concerns = <<"sanctions">>
    /\ fret.v.resolved_concerns = <<"pep">>
    /\ fret.v.delta = 20
    /\ Swapped.delta = 0 - 20

(***************************************************************************)
(* The questionnaire agent on enumerated outcomes of the service call      *)
(* (checked under SpecPure)                                                *)
(***************************************************************************)
\* what the try block observes: an exception of the transport, no text
\* (failed or timed-out run), an empty text, or a response text
QuestionnaireRuns ==
    <<RunRaised, RunReturned(None), RunReturned(Str(<<>>))>> \o
    [t \in DOMAIN QuestionnaireTexts |-> RunReturned(QuestionnaireTexts[t])]

QuestionnaireCalls ==
    \E fn \in {"generate_questionnaire", "generate_followup_questionnaire"},
       p \in DOMAIN Profiles, r \in DOMAIN QuestionnaireRuns :
        fcall = [fn |-> fn, p |-> p, r |-> r]

ApplyGenerateQuestionnaire ==
    /\ fcall.fn = "generate_questionnaire"
    /\ fret = None
    /\ fret' = generate_questionnaire(Profiles[fcall.p], QuestionnaireRuns[fcall.r])
    /\ UNCHANGED <<fcall, coord_vars, run_vars, thread_vars, store_vars>>

ApplyGenerateFollowup ==
    /\ fcall.fn = "generate_followup_questionnaire"
    /\ fret = None
    /\ fret' = generate_followup_questionnaire(Profiles[fcall.p], QuestionnaireRuns[fcall.r])
    /\ UNCHANGED <<fcall, coord_vars, run_vars, thread_vars, store_vars>>

\* the path a questionnaire call takes through the agent
QuestionnairePath(run) ==
    IF run.k = "raise" THEN "exception"
    ELSE IF ~Truthy(run.v) THEN "empty"
    ELSE IF Unparsable(run.v) THEN "unparsable"
    ELSE IF parse_questionnaire_response(run.v, "c1").exc # "none" THEN "exception"
    ELSE "parsed"

FollowupGenerated == fcall.fn = "generate_followup_questionnaire" /\ fret # None
FollowupPath == QuestionnairePath(QuestionnaireRuns[fcall.r])

\* the fallback questionnaire's sections; their ids carry the follow-up
\* marker when the fallback was built with is_followup, and do not when the
\* parser built it after a JSON decode error
IsFallbackSections(sections) ==
    \/ sections = FallbackSections(<<>>)
    \/ sections = FallbackSections(<<"followup-">>)

\* C31: the questionnaire generate_followup_questionnaire returns has an
\* identifier that starts with the follow-up marker on every path (parsed
\* response, empty or timed-out run, unparsable response, exception), and
\* every fallback path returns the fixed three-section fallback
\* questionnaire.
C31_FollowupAlwaysPrefixed ==
    FollowupGenerated =>
        /\ fret.exc = "none"
        /\ fret.v.questionnaire_id[1] = "followup-"
        /\ fret.v.questionnaire_id[Len(fret.v.questionnaire_id)] = "uuid"
        /\ FollowupPath # "parsed" =>
              /\ fret.v.profile_summary = "fallback"
              /\ IsFallbackSections(fret.v.sections)

C31_Witness ==
    /\ FollowupGenerated
    /\ FollowupPath = "exception"
    /\ QuestionnaireRuns[fcall.r] = RunRaised
    /\ fret.v.questionnaire_id = <<"followup-", "uuid">>
    /\ Len(fret.v.sections) = 3

InitPure ==
    /\ CoordInit /\ RunIdle /\ ThreadsIdle /\ StoreIdle
    /\ fret = None
    /\ (AssessmentCalls \/ ScanCalls \/ CompareCalls \/ QuestionnaireCalls)

NextPure ==
    \/ ApplyGenerateAssessment
    \/ ApplyScan
    \/ ApplySafeJson
    \/ ApplyCompareAssessments
    \/ ApplyGenerateQuestionnaire
    \/ ApplyGenerateFollowup

SpecPure == InitPure /\ [][NextPure]_vars

\* the step is a call of answer_query on a session of the store
AnswerQueryStep ==
    /\ nops' = nops + 1
    /\ last_call'.op = "answer_query"
    /\ Exists(last_call'.sid)

SessionArg(c) ==
    IF c.op \in {"generate_followup", "generate_followup_and_continue"} /\ c.exc = "none"
    THEN c.parent ELSE c.sid

\* the step is a coordinator call that raised
CallRaised == nops' = nops + 1 /\ last_call'.exc = "ValueError"

\* C26: usage errors abort the operation with no state change: a coordinator
\* operation given a session id that is not in the store, and
\* compare_assessments or get_ecdd_output on a session lacking an assessment,
\* raise to the caller and leave every session record and the set of session
\* ids unchanged.
C26_UsageErrorNoChange ==
    [][/\ (/\ nops' = nops + 1
           /\ last_call'.op \in {"submit_responses", "get_ecdd_output", "answer_query",
                                 "generate_followup_and_continue", "complete_review",
                                 "submit_followup_responses", "compare_assessments"}
           /\ ~Exists(SessionArg(last_call'))) => last_call'.exc = "ValueError"
       /\ (/\ nops' = nops + 1
           /\ last_call'.op \in {"get_ecdd_output", "compare_assessments"}
           /\ Exists(last_call'.sid)
           /\ sessions[last_call'.sid].ecdd_assessment = None)
              => last_call'.exc = "ValueError"
       /\ CallRaised => sessions' = sessions /\ pending' = pending]_vars

C26_Witness ==
    /\ last_call.op = "get_ecdd_output"
    /\ Exists(last_call.sid)
    /\ last_call.exc = "ValueError"
    /\ sessions[last_call.sid].status = "responses_submitted"

\* the time at which the step is taken
StepTime == IF nops' = nops + 1 THEN TimeOfCall ELSE TimeOfResume

\* C27: every operation that changes a session's status also sets the
\* session's updated_at to the time of the operation; updated_at never
\* decreases, so it is never older than the last status change.
C27_StatusChangeUpdatesTime ==
    [][\A sid \in 1..Len(sessions) :
          /\ sessions'[sid].status # sessions[sid].status
                => sessions'[sid].updated_at = StepTime
          /\ sessions'[sid].updated_at >= sessions[sid].updated_at]_vars

\* a review made after the assessment came back
C27_Witness ==
    \E sid \in 1..Len(sessions) :
        /\ sessions[sid].status = "approved"
        /\ sessions[sid].ecdd_assessment # None
        /\ sessions[sid].updated_at = 2 * nops - 1
        /\ sessions[sid].updated_at > sessions[sid].created_at + 2

\* the step resumes the n-th suspended call
Resumes(n) ==
    /\ n \in 1..Len(pending)
    /\ pending' = SubSeq(pending, 1, n - 1) \o SubSeq(pending, n + 1, Len(pending))
    /\ nops' = nops

\* C28: concurrent submit_responses calls on one session are not mutually
\* excluded. A call that resumes stores the assessment generated from its own
\* responses and leaves the stored responses as the last call to begin wrote
\* them, so a state is reachable (C28_Witness) in which the stored responses
\* come from one call and the stored assessment from the other call's
\* responses.
C28_ResumeKeepsStoredResponses ==
    [][\A n \in 1..Len(pending) :
          Resumes(n) =>
             /\ sessions'[pending[n].sid].responses = sessions[pending[n].sid].responses
             /\ sessions'[pending[n].sid].assessed_with = pending[n].questionnaire_responses]_vars

C28_Witness ==
    \E sid \in 1..Len(sessions) :
        /\ ~sessions[sid].is_followup
        /\ pending = <<>>
        /\ sessions[sid].status = "reports_generated"
        /\ sessions[sid].ecdd_assessment # None
        /\ sessions[sid].responses = ResponseInputs[2]
        /\ sessions[sid].assessed_with = ResponseInputs[1]

\* the step was made for session s: a call on s began, or a suspended call on
\* s resumed
StepIsFor(s) ==
    IF nops' = nops + 1 THEN last_call'.sid = s
    ELSE \E n \in 1..Len(pending) : Resumes(n) /\ pending[n].sid = s

\* C29: operations on different sessions do not interfere. A step made for
\* one session changes no field of a session with another id
\* (submit_followup_responses reads its parent and does not write it), and
\* what a resumed call stores is computed from that session's own profile and
\* that call's own responses, as if it ran alone.
C29_NoCrossSessionWrites ==
    [][/\ \A s \in 1..Len(sessions) : sessions'[s] # sessions[s] => StepIsFor(s)
       /\ \A n \in 1..Len(pending) :
             Resumes(n) =>
                LET s == pending[n].sid
                IN  /\ \E r \in 1..Len(ReportRuns) :
                          LET alone == generate_assessment(sessions[s].client_profile,
                                                           ReportRuns[r]).v
                          IN  /\ sessions'[s].ecdd_assessment = alone[1]
                              /\ sessions'[s].document_checklist = alone[2]
                    /\ sessions'[s].assessed_with = pending[n].questionnaire_responses
                    /\ sessions'[s].responses = sessions[s].responses]_vars

\* calls on sessions 1 and 2 overlap: the call on session 2 began later and
\* has returned while the call on session 1 is still suspended
C29_Witness ==
    /\ Len(pending) = 1 /\ pending[1].sid = 1
    /\ Len(sessions) >= 2
    /\ sessions[1].status = "responses_submitted"
    /\ sessions[2].status = "reports_generated"
    /\ sessions[2].updated_at > sessions[1].updated_at + 2
    /\ sessions[2].assessed_with = sessions[2].responses
    /\ sessions[1].responses # sessions[2].responses

(***************************************************************************)
(* The report agent's conversation handles (reporter_agent.py): the part   *)
(* of generate_assessment and answer_stakeholder_query that looks up or    *)
(* creates the thread of a session and sends the message on it.  A call is *)
(* suspended at each `await loop.run_in_executor(...)`.                     *)
(* (checked under SpecThreads)                                             *)
(***************************************************************************)
MaxCalls == 3

\* the session ids the agent is called with
ThreadSessionIds == {1, 2}

ReporterCalls == {"generate_assessment", "answer_stakeholder_query"}

TCall(fn, sid, at, thread_id) == [fn |-> fn, sid |-> sid, pc |-> at, thread_id |-> thread_id]

\* `if session_id in self._threads: thread_id = self._threads[session_id]`,
\* then messages.create is submitted; `else:` threads.create() is submitted
BeginReporterCall ==
    /\ Len(tcalls) < MaxCalls
    /\ \E fn \in ReporterCalls, sid \in ThreadSessionIds :
          tcalls' = Append(tcalls,
                       IF sid \in DOMAIN threads
                       THEN TCall(fn, sid, "sending", threads[sid])
                       ELSE TCall(fn, sid, "creating", 0))
    /\ UNCHANGED <<threads, created, sent>>
    /\ UNCHANGED <<coord_vars, run_vars, pure_vars, store_vars>>

\* threads.create() returned: `thread_id = thread.id`,
\* `self._threads[session_id] = thread_id`, then messages.create is submitted
ThreadCreated ==
    \E i \in 1..Len(tcalls) :
        /\ tcalls[i].pc = "creating"
        /\ LET new == Len(created) + 1
               sid == tcalls[i].sid
           IN  /\ created' = Append(created, sid)
               /\ threads' = [s \in DOMAIN threads \cup {sid} |->
                                 IF s = sid THEN new ELSE threads[s]]
               /\ tcalls' = [tcalls EXCEPT ![i].pc = "sending", ![i].thread_id = new]
        /\ UNCHANGED sent
        /\ UNCHANGED <<coord_vars, run_vars, pure_vars, store_vars>>

\* threads.create() raised: the except block returns the fallback
ThreadCreateRaises ==
    \E i \in 1..Len(tcalls) :
        /\ tcalls[i].pc = "creating"
        /\ tcalls' = [tcalls EXCEPT ![i].pc = "done"]
        /\ UNCHANGED <<threads, created, sent>>
        /\ UNCHANGED <<coord_vars, run_vars, pure_vars, store_vars>>

\* messages.create(thread_id=thread_id, ...) returned; the call goes on to
\* _process_run(thread_id) and returns
MessageSent ==
    \E i \in 1..Len(tcalls) :
        /\ tcalls[i].pc = "sending"
        /\ sent' = Append(sent, [sid |-> tcalls[i].sid, thread_id |-> tcalls[i].thread_id])
        /\ tcalls' = [tcalls EXCEPT ![i].pc = "done"]
        /\ UNCHANGED <<threads, created>>
        /\ UNCHANGED <<coord_vars, run_vars, pure_vars, store_vars>>

\* messages.create raised: the except block returns the fallback
MessageRaises ==
    \E i \in 1..Len(tcalls) :
        /\ tcalls[i].pc = "sending"
        /\ tcalls' = [tcalls EXCEPT ![i].pc = "done"]
        /\ UNCHANGED <<threads, created, sent>>
        /\ UNCHANGED <<coord_vars, run_vars, pure_vars, store_vars>>

InitThreads == CoordInit /\ RunIdle /\ PureIdle /\ ThreadsIdle /\ StoreIdle

NextThreads ==
    \/ BeginReporterCall
    \/ ThreadCreated
    \/ ThreadCreateRaises
    \/ MessageSent
    \/ MessageRaises

SpecThreads == InitThreads /\ [][NextThreads]_vars

\* C23: for each session id the thread is created once and then reused:
\* under any interleaving of generate_assessment and answer_stakeholder_query
\* calls, at most one thread is ever created for a session id and every
\* message of that session is sent on that one thread.
C23_OneThreadPerSession ==
    /\ \A sid \in ThreadSessionIds :
          Cardinality({i \in 1..Len(created) : created[i] = sid}) <= 1
    /\ \A i, j \in 1..Len(sent) :
          sent[i].sid = sent[j].sid => sent[i].thread_id = sent[j].thread_id

(***************************************************************************)
(* The session manager (session.py ECDDSessionManager): sessions held in   *)
(* memory, the write buffer, and the session files.                        *)
(* (checked under SpecStore)                                               *)
(***************************************************************************)
MaxStoreOps == 4

\* the session ids the manager is called with
StoreIds == {1, 2}

\* responses as update_session receives them: no argument, or a dict with a
\* text answer, or a dict with the date object of a date question
NoResponses == "{}"
TextResponses == "{q: 'yes'}"
DateResponses == "{q: date(2024, 5, 1)}"
DateResponsesDumped == "{q: '2024-05-01'}"

\* datetime.now(timezone.utc) during the sm_ops + 1st call
SmNow == sm_ops + 1

StoreSession(session_id, status) ==
    [session_id |-> session_id, status |-> status, responses |-> NoResponses,
     review_decision |-> "none", reviewed_at |-> 0,
     created_at |-> SmNow, updated_at |-> SmNow]

\* json.dump(session.model_dump(), f, indent=2, default=str): a value json
\* cannot encode is written as its str()
Dump(session) ==
    [k |-> "file",
     data |-> [session EXCEPT !.responses = IF @ = DateResponses
                                            THEN DateResponsesDumped ELSE @]]

\* a file that was opened for writing and not written completely
Corrupt == [k |-> "corrupt"]

\* what may happen in the try block of _save_session
WriteOutcomes == {"ok", "open_failed", "dump_failed"}

Put(f, key, value) == [x \in DOMAIN f \cup {key} |-> IF x = key THEN value ELSE f[x]]
Del(f, key) == [x \in DOMAIN f \ {key} |-> f[x]]

\* the files after _save_session(session); an exception is logged and dropped
SaveSession(files, session, outcome) ==
    CASE outcome = "ok" -> Put(files, session.session_id, Dump(session))
      [] outcome = "open_failed" -> files
      [] outcome = "dump_failed" -> Put(files, session.session_id, Corrupt)

\* _load_session(session_id): None when the file is missing or does not load
LoadSession(session_id) ==
    IF session_id \notin DOMAIN disk THEN None
    ELSE IF disk[session_id] = Corrupt THEN None
    ELSE disk[session_id].data

\* get_session(session_id): the session, and self._sessions afterwards
GetSession(session_id) ==
    IF session_id \in DOMAIN sm_sessions
    THEN [session |-> sm_sessions[session_id], cache |-> sm_sessions]
    ELSE LET loaded == LoadSession(session_id)
         IN  [session |-> loaded,
              cache |-> IF loaded = None THEN sm_sessions
                        ELSE Put(sm_sessions, session_id, loaded)]

SmCall(op, sid, ret) == [op |-> op, sid |-> sid, ret |-> ret]

StoreFrame == UNCHANGED <<coord_vars, run_vars, pure_vars, thread_vars>>

\* ECDDSessionManager(storage_path) constructed again over the same files
SmNewManager ==
    /\ sm_ops < MaxStoreOps
    /\ sm_sessions' = [x \in {} |-> 0]
    /\ write_buffer' = {}
    /\ sm_call' = SmCall("__init__", 0, "none")
    /\ sm_ops' = sm_ops + 1
    /\ UNCHANGED disk
    /\ StoreFrame

\* create_session(client_profile, questionnaire, session_id)
SmCreateSession ==
    /\ sm_ops < MaxStoreOps
    /\ \E sid \in StoreIds, q \in BOOLEAN, w \in WriteOutcomes :
         LET session == StoreSession(sid, IF q THEN "questionnaire_generated" ELSE "pending")
         IN  /\ sm_sessions' = Put(sm_sessions, sid, session)
             /\ disk' = SaveSession(disk, session, w)
             /\ sm_call' = SmCall("create_session", sid, "session")
    /\ sm_ops' = sm_ops + 1
    /\ UNCHANGED write_buffer
    /\ StoreFrame

\* get_session(session_id)
SmGetSession ==
    /\ sm_ops < MaxStoreOps
    /\ \E sid \in StoreIds :
         /\ sm_sessions' = GetSession(sid).cache
         /\ sm_call' = SmCall("get_session", sid,
                          IF GetSession(sid).session = None THEN "None" ELSE "session")
    /\ sm_ops' = sm_ops + 1
    /\ UNCHANGED <<write_buffer, disk>>
    /\ StoreFrame

\* the fields update_session assigns: an argument that is None, or falsy, is
\* skipped; updated_at is always set
Updated(session, status, responses, review_decision) ==
    [session EXCEPT
        !.status = IF status # "None" THEN status ELSE @,
        !.responses = IF responses # "None" /\ responses # NoResponses THEN responses ELSE @,
        !.review_decision = IF review_decision # "None" THEN review_decision ELSE @,
        !.reviewed_at = IF review_decision # "None" THEN SmNow ELSE @,
        !.updated_at = SmNow]

\* an update_session that writes the file on every call
BufferAfterUpdateNever(buffer, sid, save_immediately) == buffer

\* `if save_immediately: ... else: self._write_buffer[session_id] = True`
BufferAfterUpdate(buffer, sid, save_immediately) ==
    IF save_immediately THEN buffer ELSE buffer \cup {sid}

\* update_session(session_id, status, responses, ..., save_immediately)
SmUpdateSession ==
    /\ sm_ops < MaxStoreOps
    /\ \E sid \in StoreIds, status \in {"None", "reports_generated"},
          responses \in {"None", TextResponses, DateResponses},
          review_decision \in {"None", "rejected"},
          save_immediately \in BOOLEAN, w \in WriteOutcomes :
         LET got == GetSession(sid)
         IN  IF got.session = None
             THEN /\ sm_call' = SmCall("update_session", sid, "None")
                  /\ UNCHANGED <<sm_sessions, write_buffer, disk>>
             ELSE LET session == Updated(got.session, status, responses, review_decision)
                  IN  /\ sm_sessions' = Put(got.cache, sid, session)
                      /\ disk' = IF save_immediately THEN SaveSession(disk, session, w)
                                 ELSE disk
                      /\ write_buffer' = BufferAfterUpdate(write_buffer, sid, save_immediately)
                      /\ sm_call' = SmCall("update_session", sid,
                                       IF save_immediately THEN "session" ELSE "session (buffered)")
    /\ sm_ops' = sm_ops + 1
    /\ StoreFrame

\* save_checkpoint(session_id, checkpoint)
SmSaveCheckpoint ==
    /\ sm_ops < MaxStoreOps
    /\ \E sid \in StoreIds, w \in WriteOutcomes :
         LET got == GetSession(sid)
         IN  IF got.session = None
             THEN /\ sm_call' = SmCall("save_checkpoint", sid, "False")
                  /\ UNCHANGED <<sm_sessions, write_buffer, disk>>
             ELSE /\ sm_sessions' = got.cache
                  /\ disk' = SaveSession(disk, got.session, w)
                  /\ write_buffer' = write_buffer \ {sid}
                  /\ sm_call' = SmCall("save_checkpoint", sid, "True")
    /\ sm_ops' = sm_ops + 1
    /\ StoreFrame

\* flush_all(): save_checkpoint for every marked session, then clear
SmFlushAll ==
    /\ sm_ops < MaxStoreOps
    /\ \E w \in [StoreIds -> WriteOutcomes] :
         disk' = [x \in DOMAIN disk \cup {s \in write_buffer : w[s] # "open_failed"} |->
                     IF x \in write_buffer
                     THEN SaveSession(disk, sm_sessions[x], w[x])[x]
                     ELSE disk[x]]
    /\ write_buffer' = {}
    /\ sm_call' = SmCall("flush_all", 0, "None")
    /\ sm_ops' = sm_ops + 1
    /\ UNCHANGED sm_sessions
    /\ StoreFrame

\* delete_session(session_id); os.remove may fail
SmDeleteSession ==
    /\ sm_ops < MaxStoreOps
    /\ \E sid \in StoreIds, removed \in BOOLEAN :
         /\ sm_sessions' = Del(sm_sessions, sid)
         /\ write_buffer' = write_buffer \ {sid}
         /\ disk' = IF removed THEN Del(disk, sid) ELSE disk
         /\ sm_call' = SmCall("delete_session", sid,
                          IF removed /\ sid \in DOMAIN disk THEN "True" ELSE "False")
    /\ sm_ops' = sm_ops + 1
    /\ StoreFrame

InitStore == CoordInit /\ RunIdle /\ PureIdle /\ ThreadsIdle /\ StoreIdle

NextStore ==
    \/ SmNewManager
    \/ SmCreateSession
    \/ SmGetSession
    \/ SmUpdateSession
    \/ SmSaveCheckpoint
    \/ SmFlushAll
    \/ SmDeleteSession

SpecStore == InitStore /\ [][NextStore]_vars

\* the file of session sid holds the in-memory state of the session
Persisted(sid) ==
    /\ sid \in DOMAIN disk'
    /\ sid \in DOMAIN sm_sessions'
    /\ disk'[sid] = Dump(sm_sessions'[sid])

\* C30: write buffering: update_session without save_immediately does not
\* write the persisted record and marks the session as pending;
\* save_checkpoint and flush_all then persist it; after flush_all the write
\* buffer is empty and the persisted record of every session that was pending
\* equals its in-memory state.
C30_BufferedWritesPersisted ==
    [][/\ (sm_call'.op = "update_session" /\ sm_call'.ret = "session (buffered)")
            => disk' = disk /\ sm_call'.sid \in write_buffer'
       /\ (sm_call'.op = "save_checkpoint" /\ sm_call'.ret = "True")
            => Persisted(sm_call'.sid) /\ sm_call'.sid \notin write_buffer'
       /\ sm_call'.op = "flush_all"
            => write_buffer' = {} /\ \A sid \in write_buffer : Persisted(sid)]_vars

\* the step is a save_checkpoint call
CheckpointStep == sm_ops' = sm_ops + 1 /\ sm_call'.op = "save_checkpoint"

\* C32: save_checkpoint returns True only if the session was saved: it
\* returns False for a session id that is neither in memory nor loadable, and
\* whenever it returns True the session file equals the in-memory session and
\* the session is no longer marked pending.
C32_CheckpointTrueMeansSaved ==
    [][CheckpointStep =>
          /\ GetSession(sm_call'.sid).session = None => sm_call'.ret = "False"
          /\ sm_call'.ret = "True" =>
                /\ sm_call'.sid \notin write_buffer'
                /\ sm_call'.sid \in DOMAIN disk'
                /\ disk'[sm_call'.sid] = Dump(sm_sessions'[sm_call'.sid])]_vars

(***************************************************************************)
(* History queries over a store of sessions: the coordinator's dict        *)
(* (agents.py 386-430) and the session manager's files (session.py         *)
(* 269-451).  (checked under SpecHistory)                                  *)
(***************************************************************************)
\* list_sessions(limit=100) in search_sessions and list_pending_reviews
ListLimit == 100

\* status and assessment of a stored session
SessionKinds ==
    << [status |-> "questionnaire_generated", assessed |-> FALSE],
       [status |-> "reports_generated", assessed |-> TRUE],
       [status |-> "reports_generated", assessed |-> FALSE],
       [status |-> "approved", assessed |-> TRUE],
       [status |-> "escalated", assessed |-> TRUE],
       [status |-> "rejected", assessed |-> TRUE] >>

HistoryCustomers == {"c1", "c2"}

\* the sessions of the customers asked about
OwnSessions == 1..3

\* session files of another customer, all written after those of OwnSessions
OtherFiles == {0, ListLimit - 3, ListLimit - 2}

\* a stored session; created_at follows the order of creation, mtime is the
\* time its file was last written
StoredSession(sid, customer_id, kind, parent, mtime) ==
    [session_id |-> sid, customer_id |-> customer_id, status |-> kind.status,
     ecdd_assessment |-> IF kind.assessed THEN [k |-> "assessment", of |-> sid] ELSE None,
     is_followup |-> parent # NoParent, parent_session_id |-> parent,
     created_at |-> sid, mtime |-> mtime]

\* the store a call runs on
StoreOf(c) ==
    [sid \in 1..(3 + c.others) |->
        IF sid \in OwnSessions
        THEN StoredSession(sid, c.customers[sid], SessionKinds[c.kinds[sid]], c.parents[sid],
                           IF c.rewritten THEN 4 - sid ELSE sid)
        ELSE StoredSession(sid, "c9", SessionKinds[2], NoParent, sid)]

RECURSIVE SortedDesc(_, _)
\* sorted(S, key=f, reverse=True) as a sequence; the keys used are distinct
SortedDesc(S, f) ==
    IF S = {} THEN <<>>
    ELSE LET m == CHOOSE x \in S : \A y \in S : f[y] <= f[x]
         IN  <<m>> \o SortedDesc(S \ {m}, f)

Reversed(s) == [i \in 1..Len(s) |-> s[Len(s) + 1 - i]]

\* the index, from 0, of session sid in the files sorted by mtime, newest
\* first
MtimeRank(store, sid) ==
    Cardinality({x \in DOMAIN store : store[x].mtime > store[sid].mtime})

\* list_sessions(limit): the `limit` most recently written session files
list_sessions(store, limit) == {sid \in DOMAIN store : MtimeRank(store, sid) < limit}

\* search_sessions(customer_id=customer_id): the listed sessions of the
\* customer, in the order of the listing
search_sessions(store, customer_id) ==
    SortedDesc({sid \in DOMAIN store :
                    /\ customer_id = "" \/ store[sid].customer_id = customer_id
                    /\ sid \in list_sessions(store, ListLimit)},
               [sid \in DOMAIN store |-> store[sid].mtime])

\* session.py get_customer_history(customer_id, include_followups=True)
sm_get_customer_history(store, customer_id) ==
    LET found == search_sessions(store, customer_id)
    IN  SortedDesc({found[i] : i \in DOMAIN found},
                   [sid \in DOMAIN store |-> store[sid].created_at])

\* agents.py get_customer_history(customer_id, include_followups=True)
get_customer_history(store, customer_id) ==
    SortedDesc({sid \in DOMAIN store : store[sid].customer_id = customer_id},
               [sid \in DOMAIN store |-> store[sid].created_at])

\* `for session in history: if session.ecdd_assessment and session.status in
\* [REPORTS_GENERATED, APPROVED, ESCALATED]: return session.ecdd_assessment`
FirstCompleted(store, history) ==
    LET hits == {i \in DOMAIN history :
                    /\ store[history[i]].ecdd_assessment # None
                    /\ store[history[i]].status \in {"reports_generated", "approved", "escalated"}}
    IN  IF hits = {} THEN None
        ELSE store[history[CHOOSE i \in hits : \A j \in hits : i <= j]].ecdd_assessment

\* agents.py get_latest_assessment_for_customer
get_latest_assessment_for_customer(store, customer_id) ==
    FirstCompleted(store, get_customer_history(store, customer_id))

\* session.py get_latest_assessment_for_customer
sm_get_latest_assessment_for_customer(store, customer_id) ==
    FirstCompleted(store, sm_get_customer_history(store, customer_id))

RECURSIVE RootOf(_, _)
\* `while session and session.parent_session_id`: up to the first session
\* without a stored parent
RootOf(store, sid) ==
    IF store[sid].parent_session_id # NoParent /\ store[sid].parent_session_id \in DOMAIN store
    THEN RootOf(store, store[sid].parent_session_id)
    ELSE sid

RECURSIVE Flatten(_)
Flatten(seqs) == IF seqs = <<>> THEN <<>> ELSE Head(seqs) \o Flatten(Tail(seqs))

RECURSIVE add_to_chain(_, _, _, _)
\* add_to_chain(sid): sid when it is among customer_sessions, then the chain
\* of each of its children, in the order of customer_sessions; depth bounds
\* the recursion of the definition by the number of sessions
add_to_chain(store, customer_sessions, sid, depth) ==
    IF depth = 0 \/ \A i \in DOMAIN customer_sessions : customer_sessions[i] # sid THEN <<>>
    ELSE <<sid>> \o
         Flatten([i \in DOMAIN customer_sessions |->
                    IF store[customer_sessions[i]].parent_session_id = sid
                    THEN add_to_chain(store, customer_sessions, customer_sessions[i], depth - 1)
                    ELSE <<>>])

RECURSIVE SortedStable(_, _)
\* list.sort(key=f): insertion of each element after the elements whose key
\* is not greater
SortedStable(s, f) ==
    IF s = <<>> THEN <<>>
    ELSE LET rest == SortedStable(SubSeq(s, 1, Len(s) - 1), f)
             x == s[Len(s)]
             before == SelectSeq(rest, LAMBDA y : f[y] <= f[x])
             after == SelectSeq(rest, LAMBDA y : f[y] > f[x])
         IN  before \o <<x>> \o after

\* get_session_chain(session_id)
get_session_chain(store, session_id) ==
    IF session_id \notin DOMAIN store THEN <<>>
    ELSE LET root_id == RootOf(store, session_id)
             customer_sessions == search_sessions(store, store[root_id].customer_id)
         IN  SortedStable(add_to_chain(store, customer_sessions, root_id,
                                       Cardinality(DOMAIN store)),
                          [sid \in DOMAIN store |-> store[sid].created_at])

\* calls of get_latest_assessment_for_customer; the coordinator holds its
\* sessions in a dict, the manager reads the session files
LatestCalls ==
    \/ \E kinds \in [OwnSessions -> DOMAIN SessionKinds],
          customers \in [OwnSessions -> HistoryCustomers],
          customer_id \in HistoryCustomers :
          fcall = [fn |-> "get_latest_assessment_for_customer", kinds |-> kinds,
                   customers |-> customers, parents |-> [s \in OwnSessions |-> NoParent],
                   others |-> 0, rewritten |-> FALSE, arg |-> customer_id]
    \/ \E kinds \in [OwnSessions -> DOMAIN SessionKinds],
          customers \in [OwnSessions -> HistoryCustomers],
          customer_id \in HistoryCustomers, others \in {0, ListLimit - 2},
          rewritten \in BOOLEAN :
          fcall = [fn |-> "sm.get_latest_assessment_for_customer", kinds |-> kinds,
                   customers |-> customers, parents |-> [s \in OwnSessions |-> NoParent],
                   others |-> others, rewritten |-> rewritten, arg |-> customer_id]

\* calls of get_session_chain: a follow-up is created after its parent and
\* has the customer of its parent
ChainCalls ==
    \E customers \in [OwnSessions -> HistoryCustomers],
       parents \in [OwnSessions -> {NoParent} \cup OwnSessions],
       others \in OtherFiles, rewritten \in BOOLEAN, session_id \in OwnSessions \cup {ListLimit + 9} :
        /\ \A s \in OwnSessions :
              parents[s] # NoParent => parents[s] < s /\ customers[s] = customers[parents[s]]
        /\ fcall = [fn |-> "sm.get_session_chain",
                    kinds |-> [s \in OwnSessions |-> 2], customers |-> customers,
                    parents |-> parents, others |-> others, rewritten |-> rewritten,
                    arg |-> session_id]

ApplyLatestAssessment ==
    /\ fcall.fn = "get_latest_assessment_for_customer"
    /\ fret = None
    /\ fret' = Ok(get_latest_assessment_for_customer(StoreOf(fcall), fcall.arg))
    /\ UNCHANGED <<fcall, coord_vars, run_vars, thread_vars, store_vars>>

ApplySmLatestAssessment ==
    /\ fcall.fn = "sm.get_latest_assessment_for_customer"
    /\ fret = None
    /\ fret' = Ok(sm_get_latest_assessment_for_customer(StoreOf(fcall), fcall.arg))
    /\ UNCHANGED <<fcall, coord_vars, run_vars, thread_vars, store_vars>>

ApplySessionChain ==
    /\ fcall.fn = "sm.get_session_chain"
    /\ fret = None
    /\ fret' = Ok(get_session_chain(StoreOf(fcall), fcall.arg))
    /\ UNCHANGED <<fcall, coord_vars, run_vars, thread_vars, store_vars>>

InitHistory ==
    /\ CoordInit /\ RunIdle /\ ThreadsIdle /\ StoreIdle
    /\ fret = None
    /\ (LatestCalls \/ ChainCalls)

NextHistory ==
    \/ ApplyLatestAssessment
    \/ ApplySmLatestAssessment
    \/ ApplySessionChain

SpecHistory == InitHistory /\ [][NextHistory]_vars

\* the sessions of the customer that have an assessment and a status of
\* REPORTS_GENERATED, APPROVED or ESCALATED
Completed(store, customer_id) ==
    {sid \in DOMAIN store :
        /\ store[sid].customer_id = customer_id
        /\ store[sid].ecdd_assessment # None
        /\ store[sid].status \in {"reports_generated", "approved", "escalated"}}

\* the assessment of the most recently created of them, None without one
LatestCompleted(store, customer_id) ==
    LET S == Completed(store, customer_id)
    IN  IF S = {} THEN None
        ELSE store[CHOOSE x \in S : \A y \in S : store[y].created_at <= store[x].created_at]
                .ecdd_assessment

LatestReturned ==
    /\ fcall.fn \in {"get_latest_assessment_for_customer",
                     "sm.get_latest_assessment_for_customer"}
    /\ fret # None

\* C33: get_latest_assessment_for_customer, of the coordinator and of the
\* session manager, returns the assessment of the most recently created
\* session of the customer among those with an assessment and status
\* REPORTS_GENERATED, APPROVED or ESCALATED, None when there is none, and never
\* the assessment of a REJECTED session or of another customer's session.
C33_LatestCompletedAssessment ==
    LatestReturned => fret.v = LatestCompleted(StoreOf(fcall), fcall.arg)

\* the coordinator's get_latest_assessment_for_customer alone does so
C33_CoordinatorLatestCompleted ==
    (fcall.fn = "get_latest_assessment_for_customer" /\ fret # None)
        => /\ fret.v = LatestCompleted(StoreOf(fcall), fcall.arg)
           /\ fret.v # None =>
                 /\ StoreOf(fcall)[fret.v.of].status # "rejected"
                 /\ StoreOf(fcall)[fret.v.of].customer_id = fcall.arg

RECURSIVE Ancestors(_, _)
\* the session and the sessions above it in its chain
Ancestors(store, sid) ==
    {sid} \cup IF store[sid].parent_session_id \in DOMAIN store
               THEN Ancestors(store, store[sid].parent_session_id)
               ELSE {}

\* the root of the chain of sid, and the root with all its direct and
\* indirect follow-ups
ChainRoot(store, sid) ==
    CHOOSE r \in Ancestors(store, sid) : store[r].parent_session_id \notin DOMAIN store
ChainMembers(store, sid) ==
    {x \in DOMAIN store : ChainRoot(store, sid) \in Ancestors(store, x)}

ChainReturned == fcall.fn = "sm.get_session_chain" /\ fret # None

\* C34: get_session_chain called with any session of a chain returns the root
\* session and every direct and indirect follow-up of it, each exactly once, in
\* the order of creation, so the same list for every member of the chain; for
\* an unknown id it returns the empty list.
C34_ChainIsWholeTree ==
    ChainReturned =>
        IF fcall.arg \notin DOMAIN StoreOf(fcall)
        THEN fret.v = <<>>
        ELSE LET members == ChainMembers(StoreOf(fcall), fcall.arg)
             IN  /\ Len(fret.v) = Cardinality(members)
                 /\ {fret.v[i] : i \in DOMAIN fret.v} = members
                 /\ \A i, j \in DOMAIN fret.v : i < j => fret.v[i] < fret.v[j]

\* within the listing limit the chain is whole
C34_ChainWholeWithinLimit ==
    (ChainReturned /\ Cardinality(DOMAIN StoreOf(fcall)) <= ListLimit) => C34_ChainIsWholeTree

\* the step is a create_session call of the session manager
SmCreateStep == sm_ops' = sm_ops + 1 /\ sm_call'.op = "create_session"

\* C35: a session is created once and never deleted or replaced: no
\* coordinator operation removes a registered session id, and after a
\* create_session call of the coordinator or of the session manager every
\* session id registered before still maps to the record it had (same
\* status, responses and assessment).
C35_SessionsNeverReplaced ==
    [][/\ \A sid \in DOMAIN sessions :
             /\ sid \in DOMAIN sessions'
             /\ (nops' = nops + 1 /\ last_call'.op = "create_session")
                   => sessions'[sid] = sessions[sid]
       /\ SmCreateStep =>
             \A sid \in DOMAIN sm_sessions :
                 /\ sid \in DOMAIN sm_sessions'
                 /\ sm_sessions'[sid] = sm_sessions[sid]]_vars

QuestionnaireGenerated == fcall.fn = "generate_questionnaire" /\ fret # None

\* C36: every questionnaire generate_questionnaire returns has at least one
\* section that holds at least one question, whatever the service returned,
\* including well-formed JSON with no sections key or an empty sections list.
C36_QuestionnaireHasQuestion ==
    QuestionnaireGenerated =>
        /\ fret.exc = "none"
        /\ \E i \in DOMAIN fret.v.sections : Len(fret.v.sections[i].questions) >= 1

\* the questionnaires of the fallback paths have the three fixed sections,
\* each with a question
C36_FallbackHasQuestions ==
    (QuestionnaireGenerated /\ QuestionnairePath(QuestionnaireRuns[fcall.r]) # "parsed") =>
        /\ fret.exc = "none"
        /\ Len(fret.v.sections) = 3
        /\ \A i \in DOMAIN fret.v.sections : Len(fret.v.sections[i].questions) >= 1

\* RiskLevel in the order low < medium < high < critical
LevelRank(level) ==
    CASE level = "low" -> 1 [] level = "medium" -> 2 [] level = "high" -> 3
      [] level = "critical" -> 4

\* C37: in every fallback assessment the overall rating is the highest level
\* among its factors, medium when it has no factor, and the flags pep,
\* sanctions and adverse_media are true exactly when the profile has a true
\* PEP record, a sanctions hit and an adverse-news item respectively.
C37_FallbackRatingIsHighestFactor ==
    AssessmentFellBack =>
        LET a == fret.v[1]
            factors == a.risk_factors
        IN  /\ factors = <<>> => a.overall_risk_rating = "medium"
            /\ factors # <<>> =>
                  /\ \E i \in DOMAIN factors : factors[i].level = a.overall_risk_rating
                  /\ \A i \in DOMAIN factors :
                        LevelRank(factors[i].level) <= LevelRank(a.overall_risk_rating)
            /\ a.compliance_flags["pep"] = CallPep
            /\ a.compliance_flags["sanctions"] = CallSanctions
            /\ a.compliance_flags["adverse_media"] = CallAdverse

C37_Witness ==
    /\ AssessmentFellBack
    /\ CallPep /\ CallSanctions /\ CallAdverse
    /\ fret.v[1].overall_risk_rating = "critical"
    /\ Len(fret.v[1].risk_factors) = 3
    /\ fret.v[1].compliance_flags["adverse_media"]

\* a session with status REPORTS_GENERATED holds an assessment and a checklist
ReportsAttached ==
    \A sid \in DOMAIN sessions :
        sessions[sid].status = "reports_generated" =>
            /\ sessions[sid].ecdd_assessment # None
            /\ sessions[sid].document_checklist # None

\* the step is a get_ecdd_output call on a session with status REPORTS_GENERATED
OutputOfReportedStep ==
    /\ nops' = nops + 1
    /\ last_call'.op = "get_ecdd_output"
    /\ Exists(last_call'.sid)
    /\ sessions[last_call'.sid].status = "reports_generated"

\* C38: in every reachable state of the coordinator's store a session whose
\* status is REPORTS_GENERATED has an assessment and a checklist attached, so
\* get_ecdd_output succeeds for it.
C38_ReportsGeneratedHasReports ==
    /\ []ReportsAttached
    /\ [][OutputOfReportedStep =>
             /\ last_call'.exc = "none"
             /\ last_call'.ret.ecdd_assessment = sessions[last_call'.sid].ecdd_assessment
             /\ last_call'.ret.document_checklist = sessions[last_call'.sid].document_checklist]_vars

C38_Witness ==
    /\ last_call.op = "get_ecdd_output"
    /\ last_call.exc = "none"
    /\ Exists(last_call.sid)
    /\ sessions[last_call.sid].status = "reports_generated"
    /\ last_call.ret.document_checklist # None

\* C39: a session's status and its recorded review decision always agree:
\* status APPROVED, REJECTED or ESCALATED holds exactly when review_decision is
\* "approved", "rejected" or "escalated" respectively, and a session with a
\* review_decision has reviewed_at set.
C39_StatusAgreesWithDecision ==
    \A sid \in DOMAIN sessions :
        LET s == sessions[sid]
        IN  /\ \A st \in {"approved", "rejected", "escalated"} :
                  s.status = st <=> s.review_decision = st
            /\ s.review_decision # "none" => s.reviewed_at

\* what complete_review does keep: a recorded decision comes with reviewed_at
C39_DecisionHasReviewTime ==
    \A sid \in DOMAIN sessions :
        sessions[sid].review_decision # "none" => sessions[sid].reviewed_at

\* _process_run up to the end of its poll loop: the three calls before the
\* loop, the loop, and the ways out of it
PollNext ==
    \/ TransportRaises
    \/ CreateThread
    \/ CreateMessage
    \/ CreateAndProcess
    \/ Sleep
    \/ TimeOut
    \/ GetRun
    \/ RunFailed
    \/ LoopExit

\* the agent's coroutine is scheduled again whenever it can go on: a sleep
\* ends, and a call handed to the executor returns or raises
SpecPoll == InitRun /\ [][PollNext]_vars /\ WF_vars(PollNext)

\* the loop was left: by the timeout's `return None`, by an exception of
\* get_run, or with a status that ends the `while`
LoopLeft == pc \in {"list_messages", "process_done"}

\* C40: the poll loop terminates for every sequence of remote statuses,
\* including one that stays queued, in_progress or requires_action for ever:
\* it asks for the status a bounded number of times (at most 27 after the
\* run was started, with at most 28 sleeps) and is then left.
C40_PollLoopTerminates ==
    /\ [](polls <= 27 /\ Len(sleeps) <= 28)
    /\ <>LoopLeft

C40_Witness ==
    /\ pc = "process_done"
    /\ cause = "timeout"
    /\ polls = 27
    /\ observed = 28
    /\ run_status \in NonTerminal

=============================================================================
